---- MODULE Spec2Model ----
(***************************************************************************)
(* A model of the MKS 937B command gateway (package protocol): the frame   *)
(* codec of Query and Set, the connection operations, the mutex that       *)
(* serialises them, and the getters and setters layered on top.            *)
(*                                                                         *)
(* Text is modelled as a sequence of one-character strings, so that        *)
(* formatting (fmt.Sprintf), searching (regexp, strings.Contains),         *)
(* splitting (strings.Split) and parsing (strconv) are computed and not    *)
(* assumed.  The transport (unicomm.Unicomm) is the environment: its       *)
(* Write may fail, its ReadUntil returns any of a set of byte strings or   *)
(* an error.                                                               *)
(***************************************************************************)
EXTENDS Integers, Sequences, FiniteSets, TLC

(***************************************************************************)
(* Bounds of the model.                                                    *)
(***************************************************************************)
\* number of goroutines that call one gateway instance concurrently
NumCallers == 2

(***************************************************************************)
(* Text helpers.                                                           *)
(***************************************************************************)
DigitChars == <<"0", "1", "2", "3", "4", "5", "6", "7", "8", "9">>

IsDigit(c) == \E d \in 1..10 : DigitChars[d] = c

DigitVal(c) == (CHOOSE d \in 1..10 : DigitChars[d] = c) - 1

\* the decimal digits of a natural number, most significant first ("%d")
RECURSIVE Itoa(_)
Itoa(n) == IF n < 10 THEN <<DigitChars[n + 1]>>
           ELSE Itoa(n \div 10) \o <<DigitChars[(n % 10) + 1]>>

RECURSIVE Zeros(_)
Zeros(k) == IF k <= 0 THEN <<>> ELSE <<"0">> \o Zeros(k - 1)

\* fmt.Sprint(n) / "%d" of an int
SprintInt(n) == IF n < 0 THEN <<"-">> \o Itoa(0 - n) ELSE Itoa(n)

\* fmt.Sprintf("%03d", n): width 3 counts the sign, zeros pad after it
Pad3(n) == IF n < 0
           THEN <<"-">> \o Zeros(2 - Len(Itoa(0 - n))) \o Itoa(0 - n)
           ELSE Zeros(3 - Len(Itoa(n))) \o Itoa(n)

\* s[from..to], empty when from > to
Slice(s, from, to) == [i \in 1..(to - from + 1) |-> s[from + i - 1]]

\* whether sub occurs in s starting at index i
OccursAt(s, sub, i) ==
    /\ i >= 1
    /\ i + Len(sub) - 1 <= Len(s)
    /\ \A k \in 1..Len(sub) : s[i + k - 1] = sub[k]

\* strings.Contains(s, sub)
Contains(s, sub) == \E i \in 1..(Len(s) + 1) : OccursAt(s, sub, i)

ACK == <<"A", "C", "K">>
NAK == <<"N", "A", "K">>
\* the terminator ";FF" given to ReadUntil and closing every frame
Terminator == <<";", "F", "F">>

(***************************************************************************)
(* The frame codec of protocol.go.                                         *)
(***************************************************************************)
\* message := fmt.Sprintf("@%s%s?;FF", addressStr, command)
QueryMessage(address, command) ==
    <<"@">> \o Pad3(address) \o command \o <<"?">> \o Terminator

\* message := fmt.Sprintf("@%s%s!%s;FF", addressStr, command, parameter)
SetMessage(address, command, parameter) ==
    <<"@">> \o Pad3(address) \o command \o <<"!">> \o parameter \o Terminator

\* end of the longest run of digits of s that starts at index i (i-1 if none)
RECURSIVE DigitRunEnd(_, _)
DigitRunEnd(s, i) ==
    IF i <= Len(s) /\ IsDigit(s[i]) THEN DigitRunEnd(s, i + 1) ELSE i - 1

\* MatchAt for the pattern  @([0-9]+)ACK(.*?);FF  that knows no NAK tag
MatchAt_AckOnly(s, i) ==
    IF ~(i <= Len(s) /\ s[i] = "@") THEN <<>>
    ELSE LET j == DigitRunEnd(s, i + 1)
             tagged == j >= i + 1 /\ OccursAt(s, ACK, j + 1)
             ends == {k \in (j + 4)..Len(s) : OccursAt(s, Terminator, k)}
         IN  IF ~tagged \/ ends = {} THEN <<>>
             ELSE LET k == CHOOSE e \in ends : \A f \in ends : e <= f
                  IN  IF \E n \in (j + 4)..(k - 1) : s[n] = "\n" THEN <<>>
                      ELSE << Slice(s, i, k + 2),
                              Slice(s, i + 1, j),
                              Slice(s, j + 4, k - 1) >>

\* The match of  @([0-9]+)(?:ACK|NAK)(.*?);FF  that starts at index i, as
\* <<whole, group 1, group 2>>, or <<>> when there is none.  [0-9]+ is greedy
\* and is followed by a letter, so it takes the whole run of digits; .*? is
\* lazy, so it ends at the first ";FF", and . does not match a newline.
MatchAt(s, i) ==
    IF ~(i <= Len(s) /\ s[i] = "@") THEN <<>>
    ELSE LET j == DigitRunEnd(s, i + 1)
             tagged == j >= i + 1 /\ (OccursAt(s, ACK, j + 1) \/ OccursAt(s, NAK, j + 1))
             ends == {k \in (j + 4)..Len(s) : OccursAt(s, Terminator, k)}
         IN  IF ~tagged \/ ends = {} THEN <<>>
             ELSE LET k == CHOOSE e \in ends : \A f \in ends : e <= f
                  IN  IF \E n \in (j + 4)..(k - 1) : s[n] = "\n" THEN <<>>
                      ELSE << Slice(s, i, k + 2),
                              Slice(s, i + 1, j),
                              Slice(s, j + 4, k - 1) >>

\* FindStringSubmatch that matches at the start of the text only
FindStringSubmatch_AtStart(s) == MatchAt(s, 1)

\* regex.FindStringSubmatch(responseStr): the leftmost match, <<>> for nil
FindStringSubmatch(s) ==
    LET starts == {i \in 1..Len(s) : MatchAt(s, i) # <<>>}
    IN  IF starts = {} THEN <<>>
        ELSE MatchAt(s, CHOOSE i \in starts : \A j \in starts : i <= j)

(***************************************************************************)
(* Errors (errors.go).  An error is a record; kind names its Go type or    *)
(* variable, the other fields are the fields of the struct.                *)
(***************************************************************************)
Nil == [kind |-> "nil"]

\* ErrNotConnected = errors.New("device not connected")
ErrNotConnected == [kind |-> "ErrNotConnected"]

\* fmt.Errorf("no MKS937B is connected"): a fresh *fmt.wrapError-less error
\* value that no errors.Is / == comparison relates to ErrNotConnected
ErrorfNoDeviceConnected == [kind |-> "errorString", text |-> "no MKS937B is connected"]

NewErrInvalidAddress(got) == [kind |-> "ErrInvalidAddress", Got |-> got]

NewErrUnexpectedReply(sent, got) ==
    [kind |-> "ErrUnexpectedReply", Sent |-> sent, Got |-> got]

NewErrUnexpectedAddress(expected, got) ==
    [kind |-> "ErrUnexpectedAddress", Expected |-> expected, Got |-> got]

NewErrUnexpectedParamater(expected, got) ==
    [kind |-> "ErrUnexpectedParameter", Expected |-> expected, Got |-> got]

NewErrInvalidChannel(min, max, channel) ==
    [kind |-> "ErrInvalidChannel", MinChannel |-> min, MaxChannel |-> max,
     Channel |-> channel]

NewErrInvalidBaudRate(got) == [kind |-> "ErrInvalidBaudRate", Got |-> got]

NewErrInvalidChannelControl(channel) ==
    [kind |-> "ErrInvalidChannelControl", Channel |-> channel]

NewErrInvalidPRO(got) == [kind |-> "ErrInvalidPRO", Got |-> got]

NewErrInvalidRangeExp(min, max, got) ==
    [kind |-> "ErrInvalidRangeExp", MinValue |-> min, MaxValue |-> max, Got |-> got]

NewErrInvalidFilament(got) == [kind |-> "ErrInvalidFilament", Got |-> got]

NewErrInvalidCSE(got) == [kind |-> "ErrInvalidCSE", Got |-> got]

NewErrInvalidControlMode(got) == [kind |-> "ErrInvalidControlMode", Got |-> got]

NewErrInvalidEmissionCurrent(got) == [kind |-> "ErrInvalidEmissionCurrent", Got |-> got]

\* the error a transport call (unicomm) returns, e.g. a timeout
TransportError(call) == [kind |-> "transport", call |-> call]

\* *strconv.NumError wrapping strconv.ErrSyntax
NumErrorSyntax(func) == [kind |-> "strconv.NumError", Func |-> func]

(***************************************************************************)
(* Decoding of a response in Query and Set (the code after ReadUntil).     *)
(***************************************************************************)
\* QueryDecode without the comparison of the address
QueryDecode_AnyAddress(addressStr, message, responseStr) ==
    LET matches == FindStringSubmatch(responseStr)
    IN  IF Len(matches) < 3
        THEN [val |-> <<>>, err |-> NewErrUnexpectedReply(message, responseStr)]
        ELSE [val |-> matches[3], err |-> Nil]

\* QueryDecode that returns the whole match in place of its second group
QueryDecode_WholeMatch(addressStr, message, responseStr) ==
    LET matches == FindStringSubmatch(responseStr)
    IN  IF Len(matches) < 3
        THEN [val |-> <<>>, err |-> NewErrUnexpectedReply(message, responseStr)]
        ELSE IF matches[2] # addressStr
        THEN [val |-> <<>>, err |-> NewErrUnexpectedAddress(addressStr, matches[2])]
        ELSE [val |-> matches[1], err |-> Nil]

\* protocol.go 76-86: the (value, error) Query returns for a response
QueryDecode(addressStr, message, responseStr) ==
    LET matches == FindStringSubmatch(responseStr)
    IN  IF Len(matches) < 3
        THEN [val |-> <<>>, err |-> NewErrUnexpectedReply(message, responseStr)]
        ELSE IF matches[2] # addressStr
        THEN [val |-> <<>>, err |-> NewErrUnexpectedAddress(addressStr, matches[2])]
        ELSE [val |-> matches[3], err |-> Nil]

\* SetDecode without the comparison of the echoed parameter
SetDecode_AnyParameter(addressStr, message, parameter, responseStr) ==
    LET matches == FindStringSubmatch(responseStr)
    IN  IF Len(matches) < 3
        THEN NewErrUnexpectedReply(message, responseStr)
        ELSE IF matches[2] # addressStr
        THEN NewErrUnexpectedAddress(addressStr, matches[2])
        ELSE Nil

\* protocol.go 108-121: the error Set returns for a response
SetDecode(addressStr, message, parameter, responseStr) ==
    LET matches == FindStringSubmatch(responseStr)
    IN  IF Len(matches) < 3
        THEN NewErrUnexpectedReply(message, responseStr)
        ELSE IF matches[2] # addressStr
        THEN NewErrUnexpectedAddress(addressStr, matches[2])
        ELSE IF matches[3] # parameter
        THEN NewErrUnexpectedParamater(parameter, matches[3])
        ELSE Nil

(***************************************************************************)
(* State.                                                                  *)
(***************************************************************************)
VARIABLES
    Address,    \* MKS937B.Address, given to New
    connected,  \* the transport's connection state (Communication)
    mutex,      \* MKS937B.mutex: the caller holding it, 0 when unlocked
    pc,         \* where each caller is in its current call
    call        \* each caller's current (or last returned) call

vars == <<Address, connected, mutex, pc, call>>

Procs == 1..NumCallers

\* A caller's call.  api is the exported method called and arg its arguments;
\* prim is the Query/Set/IsConnected it is executing, with cmd and param;
\* chk is what IsConnected returned; werr records that Write returned an
\* error (the code drops it); rerr that ReadUntil returned an error, resp
\* the bytes it returned otherwise; val and err are the results of prim, then
\* of api; trace lists the mutex and transport calls made so far in this
\* call and base is its length when prim began; sent lists the frames given
\* to Write and got the values its Query calls returned without error.
NoCall ==
    [api |-> "none", arg |-> <<>>, prim |-> "none", cmd |-> <<>>,
     param |-> <<>>, chk |-> FALSE, werr |-> FALSE, rerr |-> FALSE,
     resp |-> <<>>, val |-> <<>>, err |-> Nil, trace |-> <<>>, base |-> 0,
     sent |-> <<>>, got |-> <<>>]

NewCall(api, arg) == [NoCall EXCEPT !.api = api, !.arg = arg]

Idle(p) == pc[p] \in {"idle", "done"}

\* the call returns at once (a failed validation): no lock, no transport call
ReturnNow(p, api, arg, val, err) ==
    /\ call' = [call EXCEPT ![p] = [NewCall(api, arg) EXCEPT !.val = val, !.err = err]]
    /\ pc' = [pc EXCEPT ![p] = "done"]
    /\ UNCHANGED <<Address, connected, mutex>>

\* the call goes on to m.Query(cmd)
StartQuery(p, c, cmd) ==
    /\ call' = [call EXCEPT ![p] = [c EXCEPT !.prim = "Query", !.cmd = cmd,
                                             !.param = <<>>, !.chk = FALSE,
                                             !.werr = FALSE, !.rerr = FALSE,
                                             !.resp = <<>>,
                                             !.base = Len(c.trace)]]
    /\ pc' = [pc EXCEPT ![p] = "isconn_lock"]
    /\ UNCHANGED <<Address, connected, mutex>>

\* the call goes on to m.Set(cmd, param)
StartSet(p, c, cmd, param) ==
    /\ call' = [call EXCEPT ![p] = [c EXCEPT !.prim = "Set", !.cmd = cmd,
                                             !.param = param, !.chk = FALSE,
                                             !.werr = FALSE, !.rerr = FALSE,
                                             !.resp = <<>>,
                                             !.base = Len(c.trace)]]
    /\ pc' = [pc EXCEPT ![p] = "isconn_lock"]
    /\ UNCHANGED <<Address, connected, mutex>>

\* the exported method returns (val, err) to its caller
Finish(p, val, err) ==
    /\ call' = [call EXCEPT ![p].val = val, ![p].err = err]
    /\ pc' = [pc EXCEPT ![p] = "done"]
    /\ UNCHANGED <<Address, connected, mutex>>

(***************************************************************************)
(* Connect, Disconnect, IsConnected (protocol.go 27-55).                   *)
(***************************************************************************)
\* Connect without the address check
Connect_Unchecked(p) ==
    /\ Idle(p)
    /\ call' = [call EXCEPT ![p] = NewCall("Connect", <<>>)]
    /\ pc' = [pc EXCEPT ![p] = "conn_lock"]
    /\ UNCHANGED <<Address, connected, mutex>>

\* Connect: the address check, then the call goes on to m.mutex.Lock()
Connect(p) ==
    /\ Idle(p)
    /\ IF Address < 1 \/ 254 < Address
       THEN ReturnNow(p, "Connect", <<>>, <<>>, NewErrInvalidAddress(Address))
       ELSE /\ call' = [call EXCEPT ![p] = NewCall("Connect", <<>>)]
            /\ pc' = [pc EXCEPT ![p] = "conn_lock"]
            /\ UNCHANGED <<Address, connected, mutex>>

Connect_Lock(p) ==
    /\ pc[p] = "conn_lock"
    /\ mutex = 0
    /\ mutex' = p
    /\ call' = [call EXCEPT ![p].trace = Append(@, "lock")]
    /\ pc' = [pc EXCEPT ![p] = "conn_call"]
    /\ UNCHANGED <<Address, connected>>

\* return m.Communication.Connect(), which may fail; the deferred Unlock
Connect_Call(p) ==
    /\ pc[p] = "conn_call"
    /\ \/ /\ connected' = TRUE
          /\ call' = [call EXCEPT ![p].trace = @ \o <<"connect", "unlock">>,
                                  ![p].err = Nil]
       \/ /\ connected' = connected
          /\ call' = [call EXCEPT ![p].trace = @ \o <<"connect", "unlock">>,
                                  ![p].err = TransportError("Connect")]
    /\ mutex' = 0
    /\ pc' = [pc EXCEPT ![p] = "done"]
    /\ UNCHANGED Address

Disconnect(p) ==
    /\ Idle(p)
    /\ call' = [call EXCEPT ![p] = NewCall("Disconnect", <<>>)]
    /\ pc' = [pc EXCEPT ![p] = "disc_lock"]
    /\ UNCHANGED <<Address, connected, mutex>>

Disconnect_Lock(p) ==
    /\ pc[p] = "disc_lock"
    /\ mutex = 0
    /\ mutex' = p
    /\ call' = [call EXCEPT ![p].trace = Append(@, "lock")]
    /\ pc' = [pc EXCEPT ![p] = "disc_call"]
    /\ UNCHANGED <<Address, connected>>

\* return m.Communication.Disconnect(); the deferred Unlock
Disconnect_Call(p) ==
    /\ pc[p] = "disc_call"
    /\ connected' = FALSE
    /\ call' = [call EXCEPT ![p].trace = @ \o <<"disconnect", "unlock">>,
                            ![p].err = Nil]
    /\ mutex' = 0
    /\ pc' = [pc EXCEPT ![p] = "done"]
    /\ UNCHANGED Address

\* IsConnected called by the user
IsConnected(p) ==
    /\ Idle(p)
    /\ call' = [call EXCEPT ![p] = [NewCall("IsConnected", <<>>)
                                    EXCEPT !.prim = "IsConnected"]]
    /\ pc' = [pc EXCEPT ![p] = "isconn_lock"]
    /\ UNCHANGED <<Address, connected, mutex>>

\* m.mutex.Lock() of IsConnected, called by the user, by Query or by Set
IsConnected_Lock(p) ==
    /\ pc[p] = "isconn_lock"
    /\ mutex = 0
    /\ mutex' = p
    /\ call' = [call EXCEPT ![p].trace = Append(@, "lock")]
    /\ pc' = [pc EXCEPT ![p] = "isconn_call"]
    /\ UNCHANGED <<Address, connected>>

\* return m.Communication.IsConnected(); the deferred Unlock
IsConnected_Call(p) ==
    /\ pc[p] = "isconn_call"
    /\ call' = [call EXCEPT ![p].trace = @ \o <<"isConnected", "unlock">>,
                            ![p].chk = connected]
    /\ mutex' = 0
    /\ pc' = [pc EXCEPT ![p] = "checked"]
    /\ UNCHANGED <<Address, connected>>

\* the user's IsConnected call returns the boolean
IsConnected_Return(p) ==
    /\ pc[p] = "checked"
    /\ call[p].prim = "IsConnected"
    /\ Finish(p, call[p].chk, Nil)

(***************************************************************************)
(* Query (protocol.go 60-87).                                              *)
(***************************************************************************)
\* if !m.IsConnected() { return "", ErrNotConnected }
Query_NotConnected(p) ==
    /\ pc[p] = "checked"
    /\ call[p].prim = "Query"
    /\ ~call[p].chk
    /\ call' = [call EXCEPT ![p].val = <<>>, ![p].err = ErrNotConnected]
    /\ pc' = [pc EXCEPT ![p] = "ret"]
    /\ UNCHANGED <<Address, connected, mutex>>

\* Query_Lock with the lock forgotten: Query goes on without the mutex
Query_Lock_Forgotten(p) ==
    /\ pc[p] = "checked"
    /\ call[p].prim = "Query"
    /\ call[p].chk
    /\ pc' = [pc EXCEPT ![p] = "write"]
    /\ UNCHANGED <<Address, connected, mutex, call>>

\* m.mutex.Lock()
Query_Lock(p) ==
    /\ pc[p] = "checked"
    /\ call[p].prim = "Query"
    /\ call[p].chk
    /\ mutex = 0
    /\ mutex' = p
    /\ call' = [call EXCEPT ![p].trace = Append(@, "lock")]
    /\ pc' = [pc EXCEPT ![p] = "write"]
    /\ UNCHANGED <<Address, connected>>

\* m.Communication.Write([]byte(message)): the error it returns is dropped
Query_Write(p) ==
    /\ pc[p] = "write"
    /\ call[p].prim = "Query"
    /\ \E failed \in BOOLEAN :
         call' = [call EXCEPT ![p].trace = Append(@, "write"),
                              ![p].sent = Append(@, QueryMessage(Address, call[p].cmd)),
                              ![p].werr = failed]
    /\ pc' = [pc EXCEPT ![p] = "read"]
    /\ UNCHANGED <<Address, connected, mutex>>

\* Query_ReadUntil with a retry: a failed read sends the frame once more
Query_ReadUntil_Retry(p, responses) ==
    /\ pc[p] = "read"
    /\ call[p].prim = "Query"
    /\ \/ /\ call' = [call EXCEPT ![p].trace = Append(@, "readUntil")]
          /\ pc' = [pc EXCEPT ![p] = IF Len(call[p].sent) < 2 THEN "write" ELSE "ret"]
          /\ mutex' = IF Len(call[p].sent) < 2 THEN mutex ELSE 0
       \/ /\ \E r \in responses :
               LET d == QueryDecode(Pad3(Address),
                                    QueryMessage(Address, call[p].cmd), r)
               IN  call' = [call EXCEPT ![p].trace = @ \o <<"readUntil", "unlock">>,
                                        ![p].resp = r,
                                        ![p].val = d.val,
                                        ![p].err = d.err,
                                        ![p].got = IF d.err = Nil
                                                   THEN Append(@, d.val) ELSE @]
          /\ mutex' = 0
          /\ pc' = [pc EXCEPT ![p] = "ret"]
    /\ UNCHANGED <<Address, connected>>

\* Query_ReadUntil without the deferred Unlock: Query returns with the
\* mutex still held by its caller
Query_ReadUntil_KeepLock(p, responses) ==
    /\ pc[p] = "read"
    /\ call[p].prim = "Query"
    /\ \/ call' = [call EXCEPT ![p].trace = Append(@, "readUntil"),
                               ![p].rerr = TRUE,
                               ![p].val = <<>>,
                               ![p].err = TransportError("ReadUntil")]
       \/ \E r \in responses :
            LET d == QueryDecode(Pad3(Address),
                                 QueryMessage(Address, call[p].cmd), r)
            IN  call' = [call EXCEPT ![p].trace = Append(@, "readUntil"),
                                     ![p].resp = r,
                                     ![p].val = d.val,
                                     ![p].err = d.err,
                                     ![p].got = IF d.err = Nil
                                                THEN Append(@, d.val) ELSE @]
    /\ pc' = [pc EXCEPT ![p] = "ret"]
    /\ UNCHANGED <<Address, connected, mutex>>

\* response, err := m.Communication.ReadUntil(";FF"), the decoding of the
\* response, and the deferred Unlock
Query_ReadUntil(p, responses) ==
    /\ pc[p] = "read"
    /\ call[p].prim = "Query"
    /\ \/ call' = [call EXCEPT ![p].trace = @ \o <<"readUntil", "unlock">>,
                               ![p].rerr = TRUE,
                               ![p].val = <<>>,
                               ![p].err = TransportError("ReadUntil")]
       \/ \E r \in responses :
            LET d == QueryDecode(Pad3(Address),
                                 QueryMessage(Address, call[p].cmd), r)
            IN  call' = [call EXCEPT ![p].trace = @ \o <<"readUntil", "unlock">>,
                                     ![p].resp = r,
                                     ![p].val = d.val,
                                     ![p].err = d.err,
                                     ![p].got = IF d.err = Nil
                                                THEN Append(@, d.val) ELSE @]
    /\ mutex' = 0
    /\ pc' = [pc EXCEPT ![p] = "ret"]
    /\ UNCHANGED <<Address, connected>>

\* Query called by the user
Query(p, command) ==
    /\ Idle(p)
    /\ StartQuery(p, NewCall("Query", <<command>>), command)

\* Query returns to the user
Query_Return(p) ==
    /\ pc[p] = "ret"
    /\ call[p].api = "Query"
    /\ Finish(p, call[p].val, call[p].err)

(***************************************************************************)
(* Set (protocol.go 92-122).                                               *)
(***************************************************************************)
\* if !m.IsConnected() { return fmt.Errorf("no MKS937B is connected") }
Set_NotConnected(p) ==
    /\ pc[p] = "checked"
    /\ call[p].prim = "Set"
    /\ ~call[p].chk
    /\ call' = [call EXCEPT ![p].val = <<>>, ![p].err = ErrorfNoDeviceConnected]
    /\ pc' = [pc EXCEPT ![p] = "ret"]
    /\ UNCHANGED <<Address, connected, mutex>>

\* m.mutex.Lock()
Set_Lock(p) ==
    /\ pc[p] = "checked"
    /\ call[p].prim = "Set"
    /\ call[p].chk
    /\ mutex = 0
    /\ mutex' = p
    /\ call' = [call EXCEPT ![p].trace = Append(@, "lock")]
    /\ pc' = [pc EXCEPT ![p] = "write"]
    /\ UNCHANGED <<Address, connected>>

\* m.Communication.Write([]byte(message)): the error it returns is dropped
Set_Write(p) ==
    /\ pc[p] = "write"
    /\ call[p].prim = "Set"
    /\ \E failed \in BOOLEAN :
         call' = [call EXCEPT ![p].trace = Append(@, "write"),
                              ![p].sent = Append(@, SetMessage(Address, call[p].cmd,
                                                               call[p].param)),
                              ![p].werr = failed]
    /\ pc' = [pc EXCEPT ![p] = "read"]
    /\ UNCHANGED <<Address, connected, mutex>>

\* Set_ReadUntil of a gateway that takes over the address it has set: after
\* an echoed AD set, m.Address becomes the new address
Set_ReadUntil_AddressFollows(p, responses) ==
    /\ pc[p] = "read"
    /\ call[p].prim = "Set"
    /\ \/ /\ call' = [call EXCEPT ![p].trace = @ \o <<"readUntil", "unlock">>,
                                  ![p].rerr = TRUE,
                                  ![p].err = TransportError("ReadUntil")]
          /\ Address' = Address
       \/ \E r \in responses :
            LET e == SetDecode(Pad3(Address),
                               SetMessage(Address, call[p].cmd, call[p].param),
                               call[p].param, r)
            IN  /\ call' = [call EXCEPT ![p].trace = @ \o <<"readUntil", "unlock">>,
                                        ![p].resp = r,
                                        ![p].err = e]
                /\ Address' = IF e = Nil /\ call[p].api = "SetAddress"
                              THEN call[p].arg[1] ELSE Address
    /\ mutex' = 0
    /\ pc' = [pc EXCEPT ![p] = "ret"]
    /\ UNCHANGED connected

\* response, err := m.Communication.ReadUntil(";FF"), the decoding of the
\* response, and the deferred Unlock
Set_ReadUntil(p, responses) ==
    /\ pc[p] = "read"
    /\ call[p].prim = "Set"
    /\ \/ call' = [call EXCEPT ![p].trace = @ \o <<"readUntil", "unlock">>,
                               ![p].rerr = TRUE,
                               ![p].err = TransportError("ReadUntil")]
       \/ \E r \in responses :
            call' = [call EXCEPT ![p].trace = @ \o <<"readUntil", "unlock">>,
                                 ![p].resp = r,
                                 ![p].err = SetDecode(Pad3(Address),
                                               SetMessage(Address, call[p].cmd,
                                                          call[p].param),
                                               call[p].param, r)]
    /\ mutex' = 0
    /\ pc' = [pc EXCEPT ![p] = "ret"]
    /\ UNCHANGED <<Address, connected>>

\* Set called by the user
Set(p, command, parameter) ==
    /\ Idle(p)
    /\ StartSet(p, NewCall("Set", <<command, parameter>>), command, parameter)

\* Set returns to the user, or to a setter that ends in  return m.Set(...)
Set_Return(p) ==
    /\ pc[p] = "ret"
    /\ call[p].prim = "Set"
    /\ Finish(p, <<>>, call[p].err)

(***************************************************************************)
(* strconv, as far as the gateway uses it.                                 *)
(***************************************************************************)
AllDigits(s) == \A i \in 1..Len(s) : IsDigit(s[i])

RECURSIVE DigitsValue(_)
DigitsValue(s) ==
    IF s = <<>> THEN 0
    ELSE 10 * DigitsValue(Slice(s, 1, Len(s) - 1)) + DigitVal(s[Len(s)])

Signed(s) == Len(s) > 0 /\ s[1] \in {"+", "-"}

Unsigned(s) == IF Signed(s) THEN Slice(s, 2, Len(s)) ELSE s

\* strconv.Atoi(s): an optional sign and one or more decimal digits
\* (the range error of a number that does not fit an int is not modelled)
Atoi(s) ==
    LET digits == Unsigned(s)
    IN  IF digits = <<>> \/ ~AllDigits(digits)
        THEN [val |-> 0, err |-> NumErrorSyntax("Atoi")]
        ELSE [val |-> IF s[1] = "-" THEN 0 - DigitsValue(digits)
                      ELSE DigitsValue(digits),
              err |-> Nil]

\* A decimal number m * 10^e in its normal form: m has no trailing zero.
RECURSIVE Normal(_, _)
Normal(m, e) ==
    IF m = 0 THEN [m |-> 0, e |-> 0]
    ELSE IF m % 10 = 0 THEN Normal(m \div 10, e + 1)
    ELSE [m |-> m, e |-> e]

Lower(c) ==
    CASE c = "I" -> "i" [] c = "N" -> "n" [] c = "F" -> "f" [] c = "A" -> "a"
      [] c = "T" -> "t" [] c = "Y" -> "y" [] c = "E" -> "e" [] OTHER -> c

LowerAll(s) == [i \in 1..Len(s) |-> Lower(s[i])]

\* strconv.ParseFloat(s, 64) on decimal text: [sign] digits [. digits]
\* [(e|E) [sign] digits] with at least one mantissa digit, all of s consumed,
\* and the special values inf, infinity (signed or not) and nan in any case.
\* The value is kept as an exact decimal; hexadecimal mantissas, digit
\* separators and the rounding and range of float64 are not modelled.
ParseFloat(s) ==
    LET body == Unsigned(s)
        neg == Signed(s) /\ s[1] = "-"
        epos == {i \in 1..Len(body) : body[i] \in {"e", "E"}}
        ep == IF epos = {} THEN Len(body) + 1
              ELSE CHOOSE i \in epos : \A j \in epos : i <= j
        mant == Slice(body, 1, ep - 1)
        dots == {i \in 1..Len(mant) : mant[i] = "."}
        digs == SelectSeq(mant, IsDigit)
        mantOk == /\ \A i \in 1..Len(mant) : IsDigit(mant[i]) \/ mant[i] = "."
                  /\ Cardinality(dots) <= 1
                  /\ Len(digs) >= 1
        frac == IF dots = {} THEN 0 ELSE Len(mant) - (CHOOSE i \in dots : TRUE)
        expo == Slice(body, ep + 1, Len(body))
        expOk == ep > Len(body)
                 \/ (Unsigned(expo) # <<>> /\ AllDigits(Unsigned(expo)))
        expVal == IF ep > Len(body) THEN 0
                  ELSE IF expo[1] = "-" THEN 0 - DigitsValue(Unsigned(expo))
                  ELSE DigitsValue(Unsigned(expo))
        low == LowerAll(body)
    IN  IF low \in {<<"i", "n", "f">>, <<"i", "n", "f", "i", "n", "i", "t", "y">>}
        THEN [val |-> [special |-> IF neg THEN "-Inf" ELSE "+Inf"], err |-> Nil]
        ELSE IF LowerAll(s) = <<"n", "a", "n">>
        THEN [val |-> [special |-> "NaN"], err |-> Nil]
        ELSE IF ~(mantOk /\ expOk)
        THEN [val |-> Normal(0, 0), err |-> NumErrorSyntax("ParseFloat")]
        ELSE [val |-> Normal((IF neg THEN -1 ELSE 1) * DigitsValue(digs),
                             expVal - frac),
              err |-> Nil]

\* strings.Split(s, " "): the fields between single spaces, empty ones kept
RECURSIVE Split(_)
Split(s) ==
    LET sp == {i \in 1..Len(s) : s[i] = " "}
    IN  IF sp = {} THEN <<s>>
        ELSE LET i == CHOOSE a \in sp : \A b \in sp : a <= b
             IN  <<Slice(s, 1, i - 1)>> \o Split(Slice(s, i + 1, Len(s)))

(***************************************************************************)
(* system.go: address and baud rate.                                       *)
(***************************************************************************)
GetAddress(p) ==
    /\ Idle(p)
    /\ StartQuery(p, NewCall("GetAddress", <<>>), <<"A", "D">>)

\* if err != nil { return 0, err }; return strconv.Atoi(response)
GetAddress_Return(p) ==
    /\ pc[p] = "ret"
    /\ call[p].api = "GetAddress"
    /\ IF call[p].err # Nil
       THEN Finish(p, 0, call[p].err)
       ELSE Finish(p, Atoi(call[p].val).val, Atoi(call[p].val).err)

\* SetAddress that formats the address with %d, without the padding
SetAddress_Unpadded(p, address) ==
    /\ Idle(p)
    /\ IF address < 1 \/ 254 < address
       THEN ReturnNow(p, "SetAddress", <<address>>, <<>>, NewErrInvalidAddress(address))
       ELSE StartSet(p, NewCall("SetAddress", <<address>>), <<"A", "D">>,
                     SprintInt(address))

\* SetAddress with && for || in the range check, which then never fails
SetAddress_AndForOr(p, address) ==
    /\ Idle(p)
    /\ IF address < 1 /\ 254 < address
       THEN ReturnNow(p, "SetAddress", <<address>>, <<>>, NewErrInvalidAddress(address))
       ELSE StartSet(p, NewCall("SetAddress", <<address>>), <<"A", "D">>, Pad3(address))

SetAddress(p, address) ==
    /\ Idle(p)
    /\ IF address < 1 \/ 254 < address
       THEN ReturnNow(p, "SetAddress", <<address>>, <<>>, NewErrInvalidAddress(address))
       ELSE StartSet(p, NewCall("SetAddress", <<address>>), <<"A", "D">>, Pad3(address))

GetBaudRate(p) ==
    /\ Idle(p)
    /\ StartQuery(p, NewCall("GetBaudRate", <<>>), <<"B", "R">>)

\* if err != nil { return 0, err }; return strconv.Atoi(response)
GetBaudRate_Return(p) ==
    /\ pc[p] = "ret"
    /\ call[p].api = "GetBaudRate"
    /\ IF call[p].err # Nil
       THEN Finish(p, 0, call[p].err)
       ELSE Finish(p, Atoi(call[p].val).val, Atoi(call[p].val).err)

\* valid := []int{9600, 19200, 38400, 57600, 115200}
ValidBaudRates == {9600, 19200, 38400, 57600, 115200}

SetBaudRate(p, baudrate) ==
    /\ Idle(p)
    /\ IF baudrate \notin ValidBaudRates
       THEN ReturnNow(p, "SetBaudRate", <<baudrate>>, <<>>, NewErrInvalidBaudRate(baudrate))
       ELSE StartSet(p, NewCall("SetBaudRate", <<baudrate>>), <<"B", "R">>,
                     SprintInt(baudrate))

(***************************************************************************)
(* readings.go: the reading decoder and the pressure getters.              *)
(***************************************************************************)
\* var stringResponse: the symbolic tokens and their descriptions
StringResponseKeys ==
    { <<"L", "O", "<">>, <<"A", "T", "M">>, <<"O", "F", "F">>,
      <<"W", "A", "I", "T">>, <<"L", "o", "w", "E", "m", "i", "s">>,
      <<"C", "T", "R", "L", "_", "O", "F", "F">>,
      <<"P", "R", "O", "T", "_", "O", "F", "F">>,
      <<"M", "I", "S", "C", "O", "N", "N">>,
      <<"N", "O", "G", "A", "U", "G", "E">>,
      <<"N", "O", "_", "G", "A", "U", "G", "E">>,
      <<"C", "O", "M", "B", "_", "D", "I", "S", "A", "B", "L", "E", "D">> }

StringResponse(key) ==
    CASE key = <<"L", "O", "<">> -> "Pressure lower than minimum"
      [] key = <<"A", "T", "M">> -> "PR when pressure is lower than 450 Torr"
      [] key = <<"O", "F", "F">> -> "Cold cathode HV if OFF, or HC/PR/CP power if OFF"
      [] key = <<"W", "A", "I", "T">> -> "CC or HC startup delay"
      [] key = <<"L", "o", "w", "E", "m", "i", "s">> -> "HC OFF due to lowe emission"
      [] key = <<"C", "T", "R", "L", "_", "O", "F", "F">> ->
             "CC or HC if OFF in controlled state"
      [] key = <<"P", "R", "O", "T", "_", "O", "F", "F">> ->
             "CC or HC if OFF in protected state"
      [] key = <<"M", "I", "S", "C", "O", "N", "N">> ->
             "Sensor improperly connected, or broken filament (PR, CP only)"
      [] key = <<"N", "O", "G", "A", "U", "G", "E">> ->
             "Controller unable to determine sensor connection"
      [] key = <<"N", "O", "_", "G", "A", "U", "G", "E">> ->
             "Controller unable to determine sensor connection"
      [] key = <<"C", "O", "M", "B", "_", "D", "I", "S", "A", "B", "L", "E", "D">> ->
             "Combination disabled"

\* var pressure PressureReading: the zero value
ZeroReading == [value |-> Normal(0, 0), status |-> ""]

\* ParsePressure with the parse error dropped: a reading that is neither a
\* token nor a number comes back as an "OK" Reading of value 0
ParsePressure_ErrorDropped(reading) ==
    LET found == {k \in StringResponseKeys : Contains(reading, k)}
        f == ParseFloat(reading)
    IN  IF found # {}
        THEN {[val |-> [ZeroReading EXCEPT !.status = StringResponse(k)], err |-> Nil]
                : k \in found}
        ELSE {[val |-> [value |-> f.val, status |-> "OK"], err |-> Nil]}

\* parsePressure(reading): the set of (PressureReading, error) it can return.
\* The range over the map visits the keys in an order Go does not fix, so the
\* first key found in the reading is any of the keys the reading contains.
ParsePressure(reading) ==
    LET found == {k \in StringResponseKeys : Contains(reading, k)}
        f == ParseFloat(reading)
    IN  IF found # {}
        THEN {[val |-> [ZeroReading EXCEPT !.status = StringResponse(k)], err |-> Nil]
                : k \in found}
        ELSE IF f.err # Nil
        THEN {[val |-> ZeroReading, err |-> f.err]}
        ELSE {[val |-> [value |-> f.val, status |-> "OK"], err |-> Nil]}

\* if 1 < channel || channel > 6 { return pressure, NewErrInvalidChannel(1, 6, channel) }
GetPressure_ChannelRejected(channel) == 1 < channel \/ channel > 6

GetPressure(p, channel) ==
    /\ Idle(p)
    /\ IF GetPressure_ChannelRejected(channel)
       THEN ReturnNow(p, "GetPressure", <<channel>>, ZeroReading,
                      NewErrInvalidChannel(1, 6, channel))
       ELSE StartQuery(p, NewCall("GetPressure", <<channel>>),
                       <<"P", "R">> \o SprintInt(channel))

\* if err != nil { return pressure, err }; return parsePressure(response)
GetPressure_Return(p) ==
    /\ pc[p] = "ret"
    /\ call[p].api = "GetPressure"
    /\ IF call[p].err # Nil
       THEN Finish(p, ZeroReading, call[p].err)
       ELSE \E r \in ParsePressure(call[p].val) : Finish(p, r.val, r.err)

GetPressures(p) ==
    /\ Idle(p)
    /\ StartQuery(p, NewCall("GetPressures", <<>>), <<"P", "R", "Z">>)

\* pressures := make([]PressureReading, 6)
PressuresLen == 6

\* The loop of GetPressures over the fields from index idx on, with the
\* slice filled so far: the set of outcomes [val, err, panic].  A field that
\* does not parse ends the loop with (nil, err); a field that parses is
\* stored at pressures[idx], a run-time panic when idx is past the slice.
RECURSIVE GetPressures_Loop(_, _, _)
GetPressures_Loop(fields, idx, pressures) ==
    IF idx > Len(fields)
    THEN {[val |-> pressures, err |-> Nil, panic |-> FALSE]}
    ELSE UNION { IF r.err # Nil
                 THEN {[val |-> <<>>, err |-> r.err, panic |-> FALSE]}
                 ELSE IF idx > PressuresLen
                 THEN {[val |-> <<>>, err |-> Nil, panic |-> TRUE]}
                 ELSE GetPressures_Loop(fields, idx + 1,
                                        [pressures EXCEPT ![idx] = r.val])
                 : r \in ParsePressure(fields[idx]) }

\* if err != nil { return nil, err }; the loop; return pressures, nil
GetPressures_Return(p) ==
    /\ pc[p] = "ret"
    /\ call[p].api = "GetPressures"
    /\ IF call[p].err # Nil
       THEN Finish(p, <<>>, call[p].err)
       ELSE \E o \in GetPressures_Loop(Split(call[p].val), 1,
                                       [i \in 1..PressuresLen |-> ZeroReading]) :
              IF o.panic
              THEN /\ call' = [call EXCEPT ![p].val = <<>>,
                                           ![p].err = [kind |-> "panic",
                                                       text |-> "index out of range"]]
                   /\ pc' = [pc EXCEPT ![p] = "panicked"]
                   /\ UNCHANGED <<Address, connected, mutex>>
              ELSE Finish(p, o.val, o.err)

\* if channel < 1 || 2 < channel { return pressure, NewErrInvalidChannel(1, 2, channel) }
GetPressureCombination(p, channel) ==
    /\ Idle(p)
    /\ IF channel < 1 \/ 2 < channel
       THEN ReturnNow(p, "GetPressureCombination", <<channel>>, ZeroReading,
                      NewErrInvalidChannel(1, 2, channel))
       ELSE StartQuery(p, NewCall("GetPressureCombination", <<channel>>),
                       <<"P", "C">> \o SprintInt(channel))

\* if err != nil { return pressure, err }; return parsePressure(response)
GetPressureCombination_Return(p) ==
    /\ pc[p] = "ret"
    /\ call[p].api = "GetPressureCombination"
    /\ IF call[p].err # Nil
       THEN Finish(p, ZeroReading, call[p].err)
       ELSE \E r \in ParsePressure(call[p].val) : Finish(p, r.val, r.err)

(***************************************************************************)
(* float64 values as exact decimals m * 10^e (see ParseFloat), and their   *)
(* formatting.  The inputs of the model have at most four significant      *)
(* digits, for which float64 compares and formats as the decimals do.      *)
(***************************************************************************)
\* the float64 constant or argument m * 10^e
Dec(m, e) == Normal(m, e)

RECURSIVE Pow10(_)
Pow10(n) == IF n <= 0 THEN 1 ELSE 10 * Pow10(n - 1)

IsSpecial(x) == "special" \in DOMAIN x

IsNaN(x) == IsSpecial(x) /\ x.special = "NaN"

\* a < b of two float64: false when either is NaN
FloatLess(a, b) ==
    IF IsNaN(a) \/ IsNaN(b) THEN FALSE
    ELSE IF IsSpecial(a) THEN a.special = "-Inf" /\ b # a
    ELSE IF IsSpecial(b) THEN b.special = "+Inf"
    ELSE LET lo == IF a.e < b.e THEN a.e ELSE b.e
         IN  a.m * Pow10(a.e - lo) < b.m * Pow10(b.e - lo)

\* a * b of two float64, a finite and positive
FloatTimes(a, b) ==
    IF IsSpecial(b) THEN b ELSE Normal(a.m * b.m, a.e + b.e)

\* the exponent of "%E": a sign and at least two digits
FormatExponent(x) ==
    (IF x < 0 THEN <<"-">> ELSE <<"+">>)
       \o Zeros(2 - Len(Itoa(IF x < 0 THEN 0 - x ELSE x)))
       \o Itoa(IF x < 0 THEN 0 - x ELSE x)

\* fmt.Sprintf("%.2E", x) of a finite x: one digit, a point, two digits, E
\* and the exponent; further digits are rounded off to the nearest (an exact
\* decimal tie is rounded to even here; float64 decides it by the binary value)
FormatE2(x) ==
    LET abs == IF x.m < 0 THEN 0 - x.m ELSE x.m
        k == Len(Itoa(abs))
        cut == Pow10(k - 3)
        q == abs \div cut
        r == abs % cut
        up == k > 3 /\ (2 * r > cut \/ (2 * r = cut /\ q % 2 = 1))
        n == IF k <= 3 THEN abs * Pow10(3 - k) ELSE IF up THEN q + 1 ELSE q
        carry == n = 1000
        d == Itoa(IF carry THEN 100 ELSE n)
        ex == IF abs = 0 THEN 0 ELSE x.e + k - 1 + (IF carry THEN 1 ELSE 0)
    IN  (IF x.m < 0 THEN <<"-">> ELSE <<>>)
           \o (IF abs = 0 THEN <<"0", ".", "0", "0">>
               ELSE <<d[1], ".", d[2], d[3]>>)
           \o <<"E">> \o FormatExponent(ex)

(***************************************************************************)
(* control.go: set points, hysteresis, active filament.                    *)
(***************************************************************************)
\* valid := []int{1, 3, 5}
ValidControlChannels == {1, 3, 5}

GetTarget(p, channel) ==
    /\ Idle(p)
    /\ IF channel \notin ValidControlChannels
       THEN ReturnNow(p, "GetTarget", <<channel>>, Dec(0, 0),
                      NewErrInvalidChannelControl(channel))
       ELSE StartQuery(p, NewCall("GetTarget", <<channel>>),
                       <<"C", "S", "P">> \o SprintInt(channel))

\* if err != nil { return 0, err }; return strconv.ParseFloat(response, 64)
GetTarget_Return(p) ==
    /\ pc[p] = "ret"
    /\ call[p].api = "GetTarget"
    /\ IF call[p].err # Nil
       THEN Finish(p, Dec(0, 0), call[p].err)
       ELSE Finish(p, ParseFloat(call[p].val).val, ParseFloat(call[p].val).err)

\* if target != 0 && target < 1e-5 && 1e-2 < target
SetProtectionTarget(p, channel, target) ==
    /\ Idle(p)
    /\ IF channel \notin ValidControlChannels
       THEN ReturnNow(p, "SetProtectionTarget", <<channel, target>>, <<>>,
                      NewErrInvalidChannelControl(channel))
       ELSE IF /\ target # Dec(0, 0)
               /\ FloatLess(target, Dec(1, -5))
               /\ FloatLess(Dec(1, -2), target)
       THEN ReturnNow(p, "SetProtectionTarget", <<channel, target>>, <<>>,
                      NewErrInvalidPRO(target))
       ELSE StartSet(p, NewCall("SetProtectionTarget", <<channel, target>>),
                     <<"P", "R", "O">> \o SprintInt(channel), FormatE2(target))

\* if target < 5e-4 && 1e-2 < target
SetTarget(p, channel, target) ==
    /\ Idle(p)
    /\ IF channel \notin ValidControlChannels
       THEN ReturnNow(p, "SetTarget", <<channel, target>>, <<>>,
                      NewErrInvalidChannelControl(channel))
       ELSE IF FloatLess(target, Dec(5, -4)) /\ FloatLess(Dec(1, -2), target)
       THEN ReturnNow(p, "SetTarget", <<channel, target>>, <<>>,
                      NewErrInvalidRangeExp(Dec(5, -4), Dec(1, -2), target))
       ELSE StartSet(p, NewCall("SetTarget", <<channel, target>>),
                     <<"C", "S", "P">> \o SprintInt(channel), FormatE2(target))

\* SetHysterisesTarget up to  CSP, err := m.GetTarget(channel): its own
\* channel check, then GetTarget's (the same list) and GetTarget's Query
SetHysterisesTarget(p, channel, target) ==
    /\ Idle(p)
    /\ IF channel \notin ValidControlChannels
       THEN ReturnNow(p, "SetHysterisesTarget", <<channel, target>>, <<>>,
                      NewErrInvalidChannelControl(channel))
       ELSE StartQuery(p, NewCall("SetHysterisesTarget", <<channel, target>>),
                       <<"C", "S", "P">> \o SprintInt(channel))

\* SetHysterisesTarget_Check with && for || in the range check
SetHysterisesTarget_Check_AndForOr(p) ==
    /\ pc[p] = "ret"
    /\ call[p].api = "SetHysterisesTarget"
    /\ call[p].prim = "Query"
    /\ LET f == ParseFloat(call[p].val)
           channel == call[p].arg[1]
           target == call[p].arg[2]
       IN  IF call[p].err # Nil THEN Finish(p, <<>>, call[p].err)
           ELSE IF f.err # Nil THEN Finish(p, <<>>, f.err)
           ELSE IF /\ FloatLess(target, FloatTimes(Dec(12, -1), f.val))
                   /\ FloatLess(Dec(3, -2), target)
           THEN Finish(p, <<>>, NewErrInvalidRangeExp(FloatTimes(Dec(12, -1), f.val),
                                                      Dec(3, -2), target))
           ELSE StartSet(p, call[p], <<"C", "H", "P">> \o SprintInt(channel),
                         FormatE2(target))

\* GetTarget returns into SetHysterisesTarget: the error of the query or of
\* ParseFloat is returned;  if target < 1.2*CSP || 0.03 < target  fails with
\* ErrInvalidRangeExp; otherwise the call goes on to m.Set("CHP<n>", "%.2E")
SetHysterisesTarget_Check(p) ==
    /\ pc[p] = "ret"
    /\ call[p].api = "SetHysterisesTarget"
    /\ call[p].prim = "Query"
    /\ LET f == ParseFloat(call[p].val)
           channel == call[p].arg[1]
           target == call[p].arg[2]
       IN  IF call[p].err # Nil THEN Finish(p, <<>>, call[p].err)
           ELSE IF f.err # Nil THEN Finish(p, <<>>, f.err)
           ELSE IF \/ FloatLess(target, FloatTimes(Dec(12, -1), f.val))
                   \/ FloatLess(Dec(3, -2), target)
           THEN Finish(p, <<>>, NewErrInvalidRangeExp(FloatTimes(Dec(12, -1), f.val),
                                                      Dec(3, -2), target))
           ELSE StartSet(p, call[p], <<"C", "H", "P">> \o SprintInt(channel),
                         FormatE2(target))

\* if filament < 1 && 2 < filament
SetActiveFilament(p, channel, filament) ==
    /\ Idle(p)
    /\ IF channel \notin ValidControlChannels
       THEN ReturnNow(p, "SetActiveFilament", <<channel, filament>>, <<>>,
                      NewErrInvalidChannelControl(channel))
       ELSE IF filament < 1 /\ 2 < filament
       THEN ReturnNow(p, "SetActiveFilament", <<channel, filament>>, <<>>,
                      NewErrInvalidFilament(filament))
       ELSE StartSet(p, NewCall("SetActiveFilament", <<channel, filament>>),
                     <<"A", "F">> \o SprintInt(channel), SprintInt(filament))

(***************************************************************************)
(* control.go: the other getters.  Each checks the channel against         *)
(* []int{1, 3, 5}, queries <mnemonic><channel> and converts the response.  *)
(***************************************************************************)
\* ControlQuery without the channel check
ControlQuery_AnyChannel(p, api, channel, zero, mnemonic) ==
    /\ Idle(p)
    /\ StartQuery(p, NewCall(api, <<channel>>), mnemonic \o SprintInt(channel))

\* valid := []int{1, 3, 5}; if !slices.Contains(valid, channel) { return
\* zero, NewErrInvalidChannelControl(channel) }; m.Query(command)
ControlQuery(p, api, channel, zero, mnemonic) ==
    /\ Idle(p)
    /\ IF channel \notin ValidControlChannels
       THEN ReturnNow(p, api, <<channel>>, zero, NewErrInvalidChannelControl(channel))
       ELSE StartQuery(p, NewCall(api, <<channel>>), mnemonic \o SprintInt(channel))

\* if err != nil { return 0, err }; return strconv.ParseFloat(response, 64)
ReturnParseFloat(p, api) ==
    /\ pc[p] = "ret"
    /\ call[p].api = api
    /\ IF call[p].err # Nil
       THEN Finish(p, Dec(0, 0), call[p].err)
       ELSE Finish(p, ParseFloat(call[p].val).val, ParseFloat(call[p].val).err)

\* if err != nil { return 0, err }; return strconv.Atoi(response)
ReturnAtoi(p, api) ==
    /\ pc[p] = "ret"
    /\ call[p].api = api
    /\ IF call[p].err # Nil
       THEN Finish(p, 0, call[p].err)
       ELSE Finish(p, Atoi(call[p].val).val, Atoi(call[p].val).err)

\* if err != nil { return false, err }; return response == "ON", nil
ReturnIsON(p, api) ==
    /\ pc[p] = "ret"
    /\ call[p].api = api
    /\ IF call[p].err # Nil
       THEN Finish(p, FALSE, call[p].err)
       ELSE Finish(p, call[p].val = <<"O", "N">>, Nil)

\* return m.Query(command)
ReturnQuery(p, api) ==
    /\ pc[p] = "ret"
    /\ call[p].api = api
    /\ Finish(p, call[p].val, call[p].err)

GetProtectionTarget(p, channel) ==
    ControlQuery(p, "GetProtectionTarget", channel, Dec(0, 0), <<"P", "R", "O">>)

GetProtectionTarget_Return(p) == ReturnParseFloat(p, "GetProtectionTarget")

GetUpperControlStatus(p, channel) ==
    ControlQuery(p, "GetUpperControlStatus", channel, FALSE, <<"X", "C", "S">>)

GetUpperControlStatus_Return(p) == ReturnIsON(p, "GetUpperControlStatus")

GetHysterisesTarget(p, channel) ==
    ControlQuery(p, "GetHysterisesTarget", channel, Dec(0, 0), <<"C", "H", "P">>)

GetHysterisesTarget_Return(p) == ReturnParseFloat(p, "GetHysterisesTarget")

GetControlChannelStatus(p, channel) ==
    ControlQuery(p, "GetControlChannelStatus", channel, <<>>, <<"C", "S", "E">>)

GetControlChannelStatus_Return(p) == ReturnQuery(p, "GetControlChannelStatus")

GetControlMode(p, channel) ==
    ControlQuery(p, "GetControlMode", channel, <<>>, <<"C", "T", "L">>)

GetControlMode_Return(p) == ReturnQuery(p, "GetControlMode")

GetActiveFilament(p, channel) ==
    ControlQuery(p, "GetActiveFilament", channel, 0, <<"A", "F">>)

GetActiveFilament_Return(p) == ReturnAtoi(p, "GetActiveFilament")

GetEmissionCurrent(p, channel) ==
    ControlQuery(p, "GetEmissionCurrent", channel, <<>>, <<"E", "C">>)

GetEmissionCurrent_Return(p) == ReturnQuery(p, "GetEmissionCurrent")

GetGasCorrection(p, channel) ==
    ControlQuery(p, "GetGasCorrection", channel, Dec(0, 0), <<"G", "C">>)

GetGasCorrection_Return(p) == ReturnParseFloat(p, "GetGasCorrection")

GetPowerStatus(p, channel) ==
    ControlQuery(p, "GetPowerStatus", channel, FALSE, <<"C", "P">>)

GetPowerStatus_Return(p) == ReturnIsON(p, "GetPowerStatus")

GetGasSensitivy(p, channel) ==
    ControlQuery(p, "GetGasSensitivy", channel, Dec(0, 0), <<"S", "E", "N">>)

GetGasSensitivy_Return(p) == ReturnParseFloat(p, "GetGasSensitivy")

GetDegasStatus(p, channel) ==
    ControlQuery(p, "GetDegasStatus", channel, FALSE, <<"D", "G">>)

GetDegasStatus_Return(p) == ReturnIsON(p, "GetDegasStatus")

GetDegasTime(p, channel) ==
    ControlQuery(p, "GetDegasTime", channel, 0, <<"D", "G", "T">>)

GetDegasTime_Return(p) == ReturnAtoi(p, "GetDegasTime")

(***************************************************************************)
(* control.go: the other setters.                                          *)
(***************************************************************************)
\* fmt.Sprintf("%.1f", x) of a finite x: the integer part, a point and one
\* digit; further digits are rounded off to the nearest (an exact decimal
\* tie is rounded to even here; float64 decides it by the binary value)
FormatF1(x) ==
    LET abs == IF x.m < 0 THEN 0 - x.m ELSE x.m
        cut == Pow10(0 - x.e - 1)
        q == abs \div cut
        r == abs % cut
        up == 2 * r > cut \/ (2 * r = cut /\ q % 2 = 1)
        tenths == IF x.e >= -1 THEN abs * Pow10(x.e + 1)
                  ELSE IF up THEN q + 1 ELSE q
    IN  (IF x.m < 0 THEN <<"-">> ELSE <<>>)
           \o Itoa(tenths \div 10) \o <<".">> \o Itoa(tenths % 10)

\* if status { return m.Set(command, "ON") }; return m.Set(command, "OFF")
OnOff(status) == IF status THEN <<"O", "N">> ELSE <<"O", "F", "F">>

\* the channel check, then m.Set(<mnemonic><channel>, ON or OFF)
ControlSwitch(p, api, channel, status, mnemonic) ==
    /\ Idle(p)
    /\ IF channel \notin ValidControlChannels
       THEN ReturnNow(p, api, <<channel, status>>, <<>>,
                      NewErrInvalidChannelControl(channel))
       ELSE StartSet(p, NewCall(api, <<channel, status>>),
                     mnemonic \o SprintInt(channel), OnOff(status))

SetUpperControlStatus(p, channel, status) ==
    ControlSwitch(p, "SetUpperControlStatus", channel, status, <<"X", "C", "S">>)

SetPowerStatus(p, channel, status) ==
    ControlSwitch(p, "SetPowerStatus", channel, status, <<"C", "P">>)

SetDegasStatus(p, channel, status) ==
    ControlSwitch(p, "SetDegasStatus", channel, status, <<"D", "G">>)

\* validTargets := []string{"A1", "B1", "A2", "B2", "C1", "C2", "OFF"}
ValidTargets ==
    { <<"A", "1">>, <<"B", "1">>, <<"A", "2">>, <<"B", "2">>, <<"C", "1">>,
      <<"C", "2">>, <<"O", "F", "F">> }

SetControlChannelStatus(p, channel, target) ==
    /\ Idle(p)
    /\ IF channel \notin ValidControlChannels
       THEN ReturnNow(p, "SetControlChannelStatus", <<channel, target>>, <<>>,
                      NewErrInvalidChannelControl(channel))
       ELSE IF target \notin ValidTargets
       THEN ReturnNow(p, "SetControlChannelStatus", <<channel, target>>, <<>>,
                      NewErrInvalidCSE(target))
       ELSE StartSet(p, NewCall("SetControlChannelStatus", <<channel, target>>),
                     <<"C", "S", "E">> \o SprintInt(channel), target)

\* validMode := []string{"AUTO", "SAFE", "OFF"}
ValidMode == { <<"A", "U", "T", "O">>, <<"S", "A", "F", "E">>, <<"O", "F", "F">> }

SetControlMode(p, channel, mode) ==
    /\ Idle(p)
    /\ IF channel \notin ValidControlChannels
       THEN ReturnNow(p, "SetControlMode", <<channel, mode>>, <<>>,
                      NewErrInvalidChannelControl(channel))
       ELSE IF mode \notin ValidMode
       THEN ReturnNow(p, "SetControlMode", <<channel, mode>>, <<>>,
                      NewErrInvalidControlMode(mode))
       ELSE StartSet(p, NewCall("SetControlMode", <<channel, mode>>),
                     <<"C", "T", "L">> \o SprintInt(channel), mode)

\* validCurrent := []string{"20UA", "100UA", "AUTO20", "AUTO100"}
ValidCurrent ==
    { <<"2", "0", "U", "A">>, <<"1", "0", "0", "U", "A">>,
      <<"A", "U", "T", "O", "2", "0">>, <<"A", "U", "T", "O", "1", "0", "0">> }

\* if !slices.Contains(validCurrent, current) { return NewErrInvalidControlMode(current) }
SetEmissionCurrent(p, channel, current) ==
    /\ Idle(p)
    /\ IF channel \notin ValidControlChannels
       THEN ReturnNow(p, "SetEmissionCurrent", <<channel, current>>, <<>>,
                      NewErrInvalidChannelControl(channel))
       ELSE IF current \notin ValidCurrent
       THEN ReturnNow(p, "SetEmissionCurrent", <<channel, current>>, <<>>,
                      NewErrInvalidControlMode(current))
       ELSE StartSet(p, NewCall("SetEmissionCurrent", <<channel, current>>),
                     <<"E", "C">> \o SprintInt(channel), current)

\* if factor < 0.1 || 50.0 < factor { return NewErrInvalidRangeExp(0.1, 50, factor) }
SetGasCorrection(p, channel, factor) ==
    /\ Idle(p)
    /\ IF channel \notin ValidControlChannels
       THEN ReturnNow(p, "SetGasCorrection", <<channel, factor>>, <<>>,
                      NewErrInvalidChannelControl(channel))
       ELSE IF FloatLess(factor, Dec(1, -1)) \/ FloatLess(Dec(50, 0), factor)
       THEN ReturnNow(p, "SetGasCorrection", <<channel, factor>>, <<>>,
                      NewErrInvalidRangeExp(Dec(1, -1), Dec(50, 0), factor))
       ELSE StartSet(p, NewCall("SetGasCorrection", <<channel, factor>>),
                     <<"G", "C">> \o SprintInt(channel), FormatF1(factor))

\* if sensitivity < 1.0 || 50.0 < sensitivity { return NewErrInvalidRangeExp(0.1, 50, sensitivity) }
SetGasSentivity(p, channel, sensitivity) ==
    /\ Idle(p)
    /\ IF channel \notin ValidControlChannels
       THEN ReturnNow(p, "SetGasSentivity", <<channel, sensitivity>>, <<>>,
                      NewErrInvalidChannelControl(channel))
       ELSE IF FloatLess(sensitivity, Dec(1, 0)) \/ FloatLess(Dec(50, 0), sensitivity)
       THEN ReturnNow(p, "SetGasSentivity", <<channel, sensitivity>>, <<>>,
                      NewErrInvalidRangeExp(Dec(1, -1), Dec(50, 0), sensitivity))
       ELSE StartSet(p, NewCall("SetGasSentivity", <<channel, sensitivity>>),
                     <<"S", "E", "N">> \o SprintInt(channel), FormatF1(sensitivity))

\* if time < 5 && 240< time { return NewErrInvalidRangeExp(5, 240, float64(time)) }
SetDegasTime(p, channel, time) ==
    /\ Idle(p)
    /\ IF channel \notin ValidControlChannels
       THEN ReturnNow(p, "SetDegasTime", <<channel, time>>, <<>>,
                      NewErrInvalidChannelControl(channel))
       ELSE IF time < 5 /\ 240 < time
       THEN ReturnNow(p, "SetDegasTime", <<channel, time>>, <<>>,
                      NewErrInvalidRangeExp(Dec(5, 0), Dec(240, 0), Dec(time, 0)))
       ELSE StartSet(p, NewCall("SetDegasTime", <<channel, time>>),
                     <<"D", "G", "T">> \o SprintInt(channel), SprintInt(time))

(***************************************************************************)
(* The environment: what callers pass in and what the transport returns.   *)
(***************************************************************************)
\* a response frame as the device sends it
Frame(addressStr, tag, payload) ==
    <<"@">> \o addressStr \o tag \o payload \o Terminator

Garbage == <<"g", "a", "r", "b", "a", "g", "e">>

CmdAD == <<"A", "D">>
CmdBR == <<"B", "R">>
Str9600 == SprintInt(9600)
Str19200 == SprintInt(19200)
Str250 == SprintInt(250)
Str099 == Pad3(99)

\* what ReadUntil may return to the concurrent callers of one gateway: the
\* device's answer, an answer with another payload, an answer of another
\* device on the line, and bytes that are no frame
GatewayResponses ==
    { Frame(Pad3(Address), ACK, Str9600),
      Frame(Pad3(Address), ACK, Str19200),
      Frame(Str099, ACK, Str250),
      Garbage }

(***************************************************************************)
(* Spec: concurrent callers of the connection operations, Query and Set.   *)
(***************************************************************************)
\* the gateway as New(address, options) returns it, for any of the addresses
Constructed(addresses) ==
    /\ Address \in addresses
    /\ connected = FALSE
    /\ mutex = 0
    /\ pc = [p \in Procs |-> "idle"]
    /\ call = [p \in Procs |-> NoCall]

Init == Constructed({48, 255})

Next ==
    \E p \in Procs :
       \/ Connect(p)
       \/ Connect_Lock(p)
       \/ Connect_Call(p)
       \/ Disconnect(p)
       \/ Disconnect_Lock(p)
       \/ Disconnect_Call(p)
       \/ IsConnected(p)
       \/ IsConnected_Lock(p)
       \/ IsConnected_Call(p)
       \/ IsConnected_Return(p)
       \/ Query(p, CmdAD)
       \/ Query_NotConnected(p)
       \/ Query_Lock(p)
       \/ Query_Write(p)
       \/ Query_ReadUntil(p, GatewayResponses)
       \/ Query_Return(p)
       \/ Set(p, CmdBR, Str9600)
       \/ Set_NotConnected(p)
       \/ Set_Lock(p)
       \/ Set_Write(p)
       \/ Set_ReadUntil(p, GatewayResponses)
       \/ Set_Return(p)

Spec == Init /\ [][Next]_vars

(***************************************************************************)
(* Properties of the gateway under concurrent callers (Spec).              *)
(***************************************************************************)
TransportCalls == {"connect", "disconnect", "isConnected", "write", "readUntil"}

\* the mutex and transport calls of the Query/Set/IsConnected in progress
PrimTrace(c) == SubSeq(c.trace, c.base + 1, Len(c.trace))

\* p has written its frame and its ReadUntil has not returned yet
InFlight(p) ==
    /\ call[p].trace # <<>>
    /\ call[p].trace[Len(call[p].trace)] = "write"

\* this step makes a transport call on behalf of q
TransportCallBy(q) ==
    \E i \in (Len(call[q].trace) + 1)..Len(call'[q].trace) :
       call'[q].trace[i] \in TransportCalls

\* a Query or Set of p that has returned, to the user or to the method
\* that called it
Returned(p) == pc[p] \in {"ret", "done"} /\ call[p].prim \in {"Query", "Set"}

\* C1: at most one request is in flight: from a caller's Write to the return
\* of its ReadUntil no other caller makes any transport call (write,
\* readUntil, connect, disconnect, isConnected), whatever the interleaving.
C1_OneRequestInFlight ==
    [][\A p, q \in Procs : (p # q /\ InFlight(p)) => ~TransportCallBy(q)]_vars

\* a request is in flight while another caller waits for the mutex
C1_Witness ==
    \E p, q \in Procs :
       /\ p # q
       /\ InFlight(p)
       /\ mutex = p
       /\ pc[q] \in {"isconn_lock", "conn_lock", "disc_lock"}

\* C2: a Query or Set made while the transport reports not connected fails
\* with ErrNotConnected, the same error for both, and writes nothing.
C2_NotConnectedIsErrNotConnected ==
    \A p \in Procs :
       (Returned(p) /\ ~call[p].chk) =>
          /\ call[p].err = ErrNotConnected
          /\ call[p].sent = <<>>

\* C6: a Query or Set whose Write failed returns the transport's error, never
\* success and never a protocol error.
C6_WriteErrorReturned ==
    \A p \in Procs :
       (Returned(p) /\ call[p].werr) => call[p].err.kind = "transport"

\* the calls of a Query or Set that passed the connection check
RoundTrip == <<"lock", "isConnected", "unlock", "lock", "write", "readUntil", "unlock">>

\* every write in the trace is directly followed by a readUntil
WritesMatched(trace) ==
    \A i \in 1..Len(trace) :
       trace[i] = "write" => (i < Len(trace) /\ trace[i + 1] = "readUntil")

\* C7: a Query or Set that passes the connection check makes exactly one
\* Write and then exactly one ReadUntil within one hold of the mutex; an
\* error of ReadUntil is returned as it is, with no second write or read; and
\* no operation of the gateway returns with a write that no read followed.
C7_OneWriteOneReadNoRetry ==
    \A p \in Procs :
       /\ (Returned(p) /\ call[p].chk) =>
             /\ PrimTrace(call[p]) = RoundTrip
             /\ Len(call[p].sent) = 1
             /\ call[p].rerr => call[p].err = TransportError("ReadUntil")
       /\ (pc[p] \in {"ret", "done"}) => WritesMatched(call[p].trace)

\* a Query came back with the error of its one ReadUntil
C7_Witness ==
    \E p \in Procs :
       /\ Returned(p)
       /\ call[p].prim = "Query"
       /\ call[p].chk
       /\ call[p].rerr
       /\ PrimTrace(call[p]) = RoundTrip

\* this step gives a frame of p to the transport's Write
Writes(p) == Len(call'[p].sent) > Len(call[p].sent)

\* C26: whatever the interleaving with a concurrent Disconnect, a Query or
\* Set never writes a frame to a transport that is disconnected at the
\* moment of the write: no operation of another caller comes between the
\* connection check of a call and its write.
C26_NoWriteWhenDisconnected ==
    [][\A p \in Procs : Writes(p) => connected]_vars

(***************************************************************************)
(* SpecCodec: one caller, and a transport that returns every combination   *)
(* of leading bytes, address, tag, payload and terminator.                 *)
(***************************************************************************)
SoleCaller == CHOOSE p \in Procs : \A q \in Procs : p <= q

StrON == <<"O", "N">>

\* bytes ahead of the frame: none, line noise, a broken frame start, the
\* end of the previous line
CodecPrefixes == {<<>>, <<"x">>, <<"@", "1">>, <<"\r">>}

\* the address field: the gateway's, another device's, the gateway's without
\* the padding, with one more zero, and none
CodecAddresses ==
    {Pad3(Address), Str099, SprintInt(Address), <<"0">> \o Pad3(Address), <<>>}

CodecTags == {ACK, NAK, <<"E", "R", "R">>}

\* the payload: the parameter that was sent (empty for a query) and others
CodecPayloads(c) == {c.param, Str19200, Str250, <<>>}

CodecTerminators == {Terminator, <<";", "F">>, <<>>}

CodecResponses(c) ==
    { pre \o Frame(a, tag, v) : pre \in CodecPrefixes, a \in CodecAddresses,
                                tag \in CodecTags, v \in CodecPayloads(c) }
    \cup
    { pre \o <<"@">> \o a \o tag \o v \o t :
         pre \in {<<>>, <<"x">>}, a \in {Pad3(Address), <<>>}, tag \in {ACK, NAK},
         v \in CodecPayloads(c), t \in CodecTerminators }
    \cup {Garbage, <<>>}

InitCodec == Constructed({1, 48, 254})

NextCodec ==
    \E p \in {SoleCaller} :
       \/ Connect(p)
       \/ Connect_Lock(p)
       \/ Connect_Call(p)
       \/ IsConnected_Lock(p)
       \/ IsConnected_Call(p)
       \/ \E command \in {CmdAD, CmdBR} : Query(p, command)
       \/ Query_NotConnected(p)
       \/ Query_Lock(p)
       \/ Query_Write(p)
       \/ Query_ReadUntil(p, CodecResponses(call[p]))
       \/ Query_Return(p)
       \/ GetAddress(p)
       \/ GetAddress_Return(p)
       \/ \E parameter \in {Str9600, StrON} : Set(p, CmdBR, parameter)
       \/ Set_NotConnected(p)
       \/ Set_Lock(p)
       \/ Set_Write(p)
       \/ Set_ReadUntil(p, CodecResponses(call[p]))
       \/ Set_Return(p)
       \/ \E baudrate \in {1200, 9600, 19200} : SetBaudRate(p, baudrate)

SpecCodec == InitCodec /\ [][NextCodec]_vars

(***************************************************************************)
(* Properties of the frame codec (SpecCodec).                              *)
(***************************************************************************)
\* the address fields and payloads a well-formed response is built from
DigitStrings == {a \in CodecAddresses : a # <<>>}

\* a Query or Set of p has returned after ReadUntil gave it a response
Answered(p, prim) ==
    /\ Returned(p)
    /\ call[p].prim = prim
    /\ call[p].chk
    /\ ~call[p].rerr

\* the text is, from its first to its last byte, @<digits>(ACK|NAK)<any>;FF
WholeFrame(s) ==
    LET j == DigitRunEnd(s, 2)
    IN  /\ Len(s) >= 8
        /\ s[1] = "@"
        /\ j >= 2
        /\ OccursAt(s, ACK, j + 1) \/ OccursAt(s, NAK, j + 1)
        /\ j + 3 <= Len(s) - 3
        /\ OccursAt(s, Terminator, Len(s) - 2)
        /\ \A n \in (j + 4)..(Len(s) - 3) : s[n] # "\n"

\* some part of the text is such a frame
HoldsFrame(s) ==
    \E i \in 1..Len(s) : \E j \in i..Len(s) : WholeFrame(Slice(s, i, j))

\* C3: Set succeeds only if the response holds a well-formed frame with the
\* zero-padded address of the request and with a parameter equal, character
\* by character, to the one sent; a well-formed response with that address
\* and another parameter fails with ErrUnexpectedParameter.
C3_SetNeedsEchoedParameter ==
    \A p \in Procs :
       Answered(p, "Set") =>
          /\ call[p].err = Nil =>
                \E tag \in {ACK, NAK} :
                   Contains(call[p].resp,
                            Frame(Pad3(Address), tag, call[p].param))
          /\ \A tag \in {ACK, NAK} : \A v \in CodecPayloads(call[p]) :
                (v # call[p].param /\ call[p].resp = Frame(Pad3(Address), tag, v))
                   => call[p].err = NewErrUnexpectedParamater(call[p].param, v)

\* SetBaudRate(9600) was answered with the echo 19200 and failed
C3_Witness ==
    \E p \in Procs :
       /\ Answered(p, "Set")
       /\ call[p].api = "SetBaudRate"
       /\ call[p].param = Str9600
       /\ call[p].resp = Frame(Pad3(Address), ACK, Str19200)
       /\ call[p].err.kind = "ErrUnexpectedParameter"

\* Query has returned its (value, error) for a response
QueryAnswered(p) ==
    /\ Answered(p, "Query")
    /\ pc[p] = "ret" \/ call[p].api = "Query"

\* C4: a response frame whose address is not the zero-padded three-digit
\* address of the request makes Query fail with ErrUnexpectedAddress; with
\* the right address the payload is returned as it stands; so a value that
\* Query returns always comes from a frame with the request's address.
C4_QueryChecksAddress ==
    \A p \in Procs :
       QueryAnswered(p) =>
          /\ Len(Pad3(Address)) = 3
          /\ \A a \in DigitStrings : \A tag \in {ACK, NAK} :
             \A v \in CodecPayloads(call[p]) :
                call[p].resp = Frame(a, tag, v) =>
                   IF a = Pad3(Address)
                   THEN call[p].err = Nil /\ call[p].val = v
                   ELSE /\ call[p].err = NewErrUnexpectedAddress(Pad3(Address), a)
                        /\ call[p].val = <<>>
          /\ call[p].err = Nil =>
                \E tag \in {ACK, NAK} :
                   Contains(call[p].resp, Frame(Pad3(Address), tag, call[p].val))

\* GetAddress was answered by device 099 and failed before parsing it
C4_Witness ==
    \E p \in Procs :
       /\ QueryAnswered(p)
       /\ call[p].api = "GetAddress"
       /\ call[p].resp = Frame(Str099, ACK, Str250)
       /\ call[p].err.kind = "ErrUnexpectedAddress"

\* C5 as stated: a response is accepted only when the whole of it matches
\* @<digits>(ACK|NAK)<anything>;FF; any other response, bytes ahead of the
\* '@' of a valid frame included, fails with ErrUnexpectedReply.
C5_WholeResponseMustMatch ==
    \A p \in Procs :
       (Answered(p, "Query") \/ Answered(p, "Set")) =>
          (~WholeFrame(call[p].resp) => call[p].err.kind = "ErrUnexpectedReply")

\* C5 as amended: a response is accepted only when some part of it matches
\* @<digits>(ACK|NAK)<anything>;FF, and it fails with ErrUnexpectedReply
\* exactly when no part does (no '@', no tag, no ';FF'); bytes ahead of the
\* '@' of a frame are skipped.
C5_SomePartMustMatch ==
    \A p \in Procs :
       (Answered(p, "Query") \/ Answered(p, "Set")) =>
          (call[p].err.kind = "ErrUnexpectedReply" <=> ~HoldsFrame(call[p].resp))

\* a frame behind one byte of noise was accepted
C5_Witness ==
    \E p \in Procs :
       /\ Answered(p, "Query")
       /\ call[p].resp = <<"x">> \o Frame(Pad3(Address), ACK, Str250)
       /\ call[p].err = Nil
       /\ call[p].val = Str250

\* C17: a response frame tagged NAK is treated exactly like one tagged ACK:
\* a Query whose NAK response carries the request address returns the
\* payload as a successful value, a Set whose NAK response carries the
\* request address and the sent parameter succeeds, and whatever the
\* address and payload the outcome is that of the same frame tagged ACK.
C17_NakTreatedAsAck ==
    \A p \in Procs :
       /\ \A v \in CodecPayloads(call[p]) :
             (QueryAnswered(p) /\ call[p].resp = Frame(Pad3(Address), NAK, v)) =>
                (call[p].err = Nil /\ call[p].val = v)
       /\ (Answered(p, "Set")
             /\ call[p].resp = Frame(Pad3(Address), NAK, call[p].param)) =>
                call[p].err = Nil
       /\ \A a \in CodecAddresses : \A v \in CodecPayloads(call[p]) :
             /\ (QueryAnswered(p) /\ call[p].resp = Frame(a, NAK, v)) =>
                   LET d == QueryDecode(Pad3(Address),
                                        QueryMessage(Address, call[p].cmd),
                                        Frame(a, ACK, v))
                   IN  call[p].err.kind = d.err.kind /\ call[p].val = d.val
             /\ (Answered(p, "Set") /\ call[p].resp = Frame(a, NAK, v)) =>
                   call[p].err.kind =
                      SetDecode(Pad3(Address),
                                SetMessage(Address, call[p].cmd, call[p].param),
                                call[p].param, Frame(a, ACK, v)).kind

\* a Set of ON answered with the NAK frame of its address and ON succeeded,
\* and it was returned to the caller
C17_Witness ==
    \E p \in Procs :
       /\ Answered(p, "Set")
       /\ pc[p] = "done"
       /\ call[p].param = StrON
       /\ call[p].resp = Frame(Pad3(Address), NAK, StrON)
       /\ call[p].err = Nil

(***************************************************************************)
(* SpecSystem: one caller of the connection operations and of the address  *)
(* getter and setter, on gateways built with valid and invalid addresses.  *)
(***************************************************************************)
\* addresses given to New and to SetAddress: the ends of [1,254], their
\* neighbours outside, and values further away
AddressInputs == {-1, 0, 1, 48, 254, 255, 1000}

\* baud rates given to SetBaudRate: two of the valid ones, one that is not,
\* and the number a device at address 48 gives for its address
BaudRateInputs == {48, 1200, 9600, 19200}

\* the device's answer (the echo of a set; its address or its baud rate for
\* a query), the answer of another device, and bytes that are no frame
SystemResponses(c) ==
    { Frame(Pad3(Address), ACK, c.param),
      Frame(Pad3(Address), ACK, Pad3(Address)),
      Frame(Pad3(Address), ACK, Str19200),
      Frame(Str099, ACK, Str250),
      Garbage }

InitSystem == Constructed(AddressInputs)

NextSystem ==
    \E p \in {SoleCaller} :
       \/ Connect(p)
       \/ Connect_Lock(p)
       \/ Connect_Call(p)
       \/ Disconnect(p)
       \/ Disconnect_Lock(p)
       \/ Disconnect_Call(p)
       \/ IsConnected_Lock(p)
       \/ IsConnected_Call(p)
       \/ GetAddress(p)
       \/ Query_NotConnected(p)
       \/ Query_Lock(p)
       \/ Query_Write(p)
       \/ Query_ReadUntil(p, SystemResponses(call[p]))
       \/ GetAddress_Return(p)
       \/ \E address \in AddressInputs : SetAddress(p, address)
       \/ GetBaudRate(p)
       \/ GetBaudRate_Return(p)
       \/ \E baudrate \in BaudRateInputs : SetBaudRate(p, baudrate)
       \/ Set_NotConnected(p)
       \/ Set_Lock(p)
       \/ Set_Write(p)
       \/ Set_ReadUntil(p, SystemResponses(call[p]))
       \/ Set_Return(p)

SpecSystem == InitSystem /\ [][NextSystem]_vars

\* C8: for every address outside [1,254], Connect on a gateway built with it
\* and SetAddress called with it fail with ErrInvalidAddress and make no
\* transport call: nothing is connected and no frame is written.
C8_InvalidAddressNoIO ==
    /\ (Address < 1 \/ 254 < Address) => ~connected
    /\ \A p \in Procs :
          /\ (call[p].api = "Connect" /\ (Address < 1 \/ 254 < Address)) =>
                /\ pc[p] = "done"
                /\ call[p].err = NewErrInvalidAddress(Address)
                /\ call[p].trace = <<>>
                /\ call[p].sent = <<>>
          /\ (call[p].api = "SetAddress"
                /\ (call[p].arg[1] < 1 \/ 254 < call[p].arg[1])) =>
                /\ pc[p] = "done"
                /\ call[p].err = NewErrInvalidAddress(call[p].arg[1])
                /\ call[p].trace = <<>>
                /\ call[p].sent = <<>>

\* SetAddress(255) was refused on a connected gateway
C8_Witness ==
    \E p \in Procs :
       /\ connected
       /\ call[p].api = "SetAddress"
       /\ call[p].arg = <<255>>
       /\ call[p].err.kind = "ErrInvalidAddress"

\* this step is p's call of the setter api with the value that p's call of
\* the getter has just returned without error, a value among valid
PassesOn(p, getter, setter, valid) ==
    /\ pc[p] = "done"
    /\ call[p].api = getter
    /\ call[p].err = Nil
    /\ call[p].val \in valid
    /\ call'[p].api = setter
    /\ call'[p].arg = <<call[p].val>>

\* the step has passed the setter's validation and gone on to the Set of
\* the parameter text, which reads back as the value passed on
GoesOnToSet(p, command, parameter) ==
    /\ pc'[p] = "isconn_lock"
    /\ call'[p].prim = "Set"
    /\ call'[p].cmd = command
    /\ call'[p].param = parameter
    /\ Atoi(call'[p].param) = [val |-> call[p].val, err |-> Nil]

\* C16: against a device that holds a valid address (baud rate) and echoes
\* the parameters of a set, the value GetAddress (GetBaudRate) returns is
\* accepted by SetAddress (SetBaudRate): the validation passes, the
\* formatted parameter is the device's text of the value, and the call
\* answered with the echo returns no error.
C16_GetThenSetAccepted ==
    /\ [][\A p \in Procs :
            /\ PassesOn(p, "GetAddress", "SetAddress", 1..254) =>
                  /\ GoesOnToSet(p, CmdAD, Pad3(call[p].val))
                  /\ call'[p].param = call[p].got[1]
            /\ PassesOn(p, "GetBaudRate", "SetBaudRate", ValidBaudRates) =>
                  /\ GoesOnToSet(p, CmdBR, SprintInt(call[p].val))
                  /\ call'[p].param = call[p].got[1]]_vars
    /\ [](\A p \in Procs :
            (Answered(p, "Set") /\ call[p].api \in {"SetAddress", "SetBaudRate"}
               /\ call[p].resp = Frame(Pad3(Address), ACK, call[p].param))
                  => call[p].err = Nil)

\* SetAddress of the device's own address 48 was echoed and returned no error
C16_Witness ==
    \E p \in Procs :
       /\ pc[p] = "done"
       /\ call[p].api = "SetAddress"
       /\ call[p].arg = <<Address>>
       /\ call[p].sent = <<SetMessage(Address, CmdAD, <<"0", "4", "8">>)>>
       /\ call[p].resp = Frame(Pad3(Address), ACK, <<"0", "4", "8">>)
       /\ call[p].err = Nil

\* the frame begins with '@' and the three digits of the gateway's address
CarriesAddress(frame) ==
    /\ Len(frame) >= 5
    /\ frame[1] = "@"
    /\ AllDigits(Slice(frame, 2, 4))
    /\ DigitsValue(Slice(frame, 2, 4)) = Address
    /\ ~IsDigit(frame[5])

\* C24: no operation of the gateway changes its Address: after a successful
\* SetAddress(b) with b other than the address given to the constructor,
\* every frame of Query and Set still carries the constructor's address and
\* every response is still checked against it.
C24_AddressNeverChanges ==
    /\ [][Address' = Address]_vars
    /\ [](\A p \in Procs :
            /\ \A i \in 1..Len(call[p].sent) :
                  Slice(call[p].sent[i], 1, 4) = <<"@">> \o Pad3(Address)
            /\ (Returned(p) /\ call[p].chk /\ ~call[p].rerr /\ call[p].err = Nil) =>
                  \E tag \in {ACK, NAK} :
                     Contains(call[p].resp, <<"@">> \o Pad3(Address) \o tag))

\* the gateway built with address 48 has set the device's address to 254
\* with success, and its own address is still 48
C24_Witness ==
    \E p \in Procs :
       /\ pc[p] = "done"
       /\ call[p].api = "SetAddress"
       /\ call[p].arg = <<254>>
       /\ call[p].resp = Frame(<<"0", "4", "8">>, ACK, <<"2", "5", "4">>)
       /\ call[p].err = Nil
       /\ Address = 48

\* C25: in every reachable state a connected gateway has an address in
\* [1,254], and every frame that Query or Set has written begins with '@',
\* exactly three decimal digits that encode that address, the mnemonic, and
\* '?' or '!'.
C25_ConnectedHasValidAddress ==
    /\ connected => Address \in 1..254
    /\ \A p \in Procs : \A i \in 1..Len(call[p].sent) :
          LET frame == call[p].sent[i]
              mark == 5 + Len(call[p].cmd)
          IN  /\ Address \in 1..254
              /\ CarriesAddress(frame)
              /\ Slice(frame, 5, mark - 1) = call[p].cmd
              /\ frame[mark] = IF call[p].prim = "Query" THEN "?" ELSE "!"

\* the gateway built with address 1 is connected and has written @001AD?;FF
C25_Witness ==
    \E p \in Procs :
       /\ connected
       /\ Address = 1
       /\ call[p].sent = << <<"@", "0", "0", "1", "A", "D", "?", ";", "F", "F">> >>

(***************************************************************************)
(* SpecReadings: one caller of the pressure getters.                       *)
(***************************************************************************)
\* largest number of space-separated fields in a PRZ response body
MaxFields == 7

\* channels given to GetPressure: 1..6, their neighbours and a negative one
ChannelInputs == {-1, 0, 1, 2, 3, 6, 7}

\* channels given to GetPressureCombination: 1, 2 and their neighbours
CombinationInputs == {0, 1, 2, 3}

\* a numeric field, two symbolic ones, and one that is neither
Str1Em3 == <<"1", ".", "0", "E", "-", "0", "3">>
StrOFF == <<"O", "F", "F">>
StrLO == <<"L", "O", "<">>
StrXyz == <<"x", "y", "z">>
ReadingFields == {Str1Em3, StrOFF, StrXyz}

\* the bodies of n fields separated by single spaces
RECURSIVE BodiesOfLen(_)
BodiesOfLen(n) ==
    IF n <= 1 THEN ReadingFields
    ELSE {b \o <<" ">> \o f : b \in BodiesOfLen(n - 1), f \in ReadingFields}

\* the PRZ bodies: up to MaxFields fields, the body of the device's manual
\* with one field of each kind per channel, an empty body, a doubled space
PressuresBodies ==
    UNION {BodiesOfLen(n) : n \in 1..MaxFields}
    \cup { <<>>, Str1Em3 \o <<" ", " ">> \o StrOFF,
           Str1Em3 \o <<" ">> \o Str1Em3 \o <<" ">> \o StrOFF \o <<" ">>
             \o Str1Em3 \o <<" ">> \o StrLO \o <<" ">> \o Str1Em3 }

\* the bodies of a single reading: a number, symbolic tokens (two of them
\* holding the token OFF), a number with a token behind it, the text of a
\* special float value, bytes that are neither, and nothing
StrCTRL_OFF == <<"C", "T", "R", "L", "_", "O", "F", "F">>
StrPROT_OFF == <<"P", "R", "O", "T", "_", "O", "F", "F">>
StrNOGAUGE == <<"N", "O", "G", "A", "U", "G", "E">>
StrNaN == <<"N", "a", "N">>
ReadingBodies ==
    ReadingFields \cup
    {StrLO, StrCTRL_OFF, StrPROT_OFF, StrNOGAUGE, StrNaN,
     Str1Em3 \o StrOFF, <<"1", "2", "x">>, <<>>}

ReadingResponses(c) ==
    IF c.api = "GetPressures"
    THEN {Frame(Pad3(Address), ACK, b) : b \in PressuresBodies}
    ELSE {Frame(Pad3(Address), ACK, b) : b \in ReadingBodies} \cup {Garbage}

InitReadings == Constructed({48})

NextReadings ==
    \E p \in {SoleCaller} :
       \/ Connect(p)
       \/ Connect_Lock(p)
       \/ Connect_Call(p)
       \/ IsConnected_Lock(p)
       \/ IsConnected_Call(p)
       \/ \E channel \in ChannelInputs : GetPressure(p, channel)
       \/ GetPressures(p)
       \/ Query_NotConnected(p)
       \/ Query_Lock(p)
       \/ Query_Write(p)
       \/ Query_ReadUntil(p, ReadingResponses(call[p]))
       \/ GetPressure_Return(p)
       \/ GetPressures_Return(p)
       \/ \E channel \in CombinationInputs : GetPressureCombination(p, channel)
       \/ GetPressureCombination_Return(p)

SpecReadings == InitReadings /\ [][NextReadings]_vars

\* C9: GetPressure accepts exactly the channels 1..6: for each of them it
\* sends the query PR<channel>, and for any other channel it fails with
\* ErrInvalidChannel and makes no transport call.
C9_GetPressureChannels ==
    \A p \in Procs :
       call[p].api = "GetPressure" =>
          LET channel == call[p].arg[1]
          IN  IF channel \in 1..6
              THEN /\ call[p].err.kind # "ErrInvalidChannel"
                   /\ call[p].sent # <<>> =>
                         call[p].sent[1] =
                            QueryMessage(Address, <<"P", "R">> \o SprintInt(channel))
              ELSE /\ pc[p] = "done"
                   /\ call[p].err = NewErrInvalidChannel(1, 6, channel)
                   /\ call[p].trace = <<>>

\* every outcome of parsePressure on the field is an error
FailsToDecode(field) == \A r \in ParsePressure(field) : r.err # Nil

\* C10: for every PRZ response body, a GetPressures that succeeds returns
\* exactly 6 Readings, the i-th being the decode of the i-th space-separated
\* field of the body; if a field fails to decode, the call returns that
\* error and no partial result.
C10_SixReadingsOnePerField ==
    \A p \in Procs :
       (call[p].api = "GetPressures" /\ pc[p] \in {"done", "panicked"}
           /\ ~call[p].werr /\ call[p].got # <<>>) =>
          LET fields == Split(call[p].got[1])
          IN  /\ (pc[p] = "done" /\ call[p].err = Nil) =>
                    /\ Len(call[p].val) = 6
                    /\ \A i \in 1..6 :
                          /\ i <= Len(fields)
                          /\ \E r \in ParsePressure(fields[i]) :
                                r.err = Nil /\ call[p].val[i] = r.val
              /\ (\E i \in 1..Len(fields) : FailsToDecode(fields[i])) =>
                    /\ pc[p] = "done"
                    /\ call[p].err.kind = "strconv.NumError"
                    /\ call[p].val = <<>>

(***************************************************************************)
(* Properties of the reading decoder (SpecReadings).                       *)
(***************************************************************************)
\* GetPressure or GetPressureCombination has returned what parsePressure
\* made of the body the query gave it
Decoded(p) ==
    /\ pc[p] = "done"
    /\ call[p].api \in {"GetPressure", "GetPressureCombination"}
    /\ call[p].got # <<>>

\* the tokens of the table that the body contains
TokensIn(body) == {k \in StringResponseKeys : Contains(body, k)}

\* the longest of a non-empty set of tokens
MostSpecific(tokens) ==
    CHOOSE k \in tokens : \A j \in tokens : Len(j) <= Len(k)

Descriptions == {StringResponse(k) : k \in StringResponseKeys}

\* C11: the reading decoder is deterministic: the Reading returned for a
\* body is the only one the decoder can return for that body, and a body
\* holding tokens (CTRL_OFF, PROT_OFF, which hold OFF) is classified by the
\* longest, most specific of them.
C11_DecoderDeterministic ==
    \A p \in Procs :
       (Decoded(p) /\ call[p].err = Nil) =>
          LET body == call[p].got[1]
          IN  /\ \A r \in ParsePressure(body) : r.val = call[p].val
              /\ TokensIn(body) # {} =>
                    call[p].val.status = StringResponse(MostSpecific(TokensIn(body)))

\* C12: a Reading that is returned has either status "OK" and the parsed
\* value, and then its body holds no token and parses as a number, or value
\* 0 and a description of the table as status, and then its body holds a
\* token; a body with no token that does not parse gives the parse error
\* and the zero Reading.
C12_ValueOrStatus ==
    \A p \in Procs :
       Decoded(p) =>
          LET body == call[p].got[1]
              f == ParseFloat(body)
          IN  IF TokensIn(body) # {}
              THEN /\ call[p].err = Nil
                   /\ call[p].val.value = Normal(0, 0)
                   /\ call[p].val.status \in Descriptions
              ELSE IF f.err = Nil
              THEN /\ call[p].err = Nil
                   /\ call[p].val = [value |-> f.val, status |-> "OK"]
              ELSE /\ call[p].err = NumErrorSyntax("ParseFloat")
                   /\ call[p].val = ZeroReading

\* a number, a token behind a number, and bytes that are neither were decoded
C12_Witness ==
    \E p \in Procs :
       /\ Decoded(p)
       /\ \/ /\ call[p].got[1] = Str1Em3
             /\ call[p].val = [value |-> [m |-> 1, e |-> -3], status |-> "OK"]
             /\ call[p].api = "GetPressureCombination"
          \/ /\ call[p].got[1] = StrXyz
             /\ call[p].err.kind = "strconv.NumError"
             /\ call[p].api = "GetPressure"

(***************************************************************************)
(* SpecControl: one caller of the set point, hysteresis and filament       *)
(* operations of control.go.                                               *)
(***************************************************************************)
\* channels given to the control operations: 1, 3, 5 and others
ControlChannelInputs == {-1, 0, 1, 2, 3, 4, 5, 6}

\* control channel assignments: two valid ones, an unknown one, none
CSEInputs == {<<"A", "1">>, <<"O", "F", "F">>, <<"D", "1">>, <<>>}

\* control modes: two valid ones and an unknown one
ModeInputs == {<<"A", "U", "T", "O">>, <<"O", "F", "F">>, <<"M", "A", "N">>}

\* emission currents: two valid ones, an unknown one, and a control mode
CurrentInputs ==
    { <<"2", "0", "U", "A">>, <<"A", "U", "T", "O", "1", "0", "0">>,
      <<"5", "0", "U", "A">>, <<"A", "U", "T", "O">> }

\* gas factors: the ends of [0.1, 50] and of [1, 50], values inside and outside
GasInputs ==
    { Dec(5, -2), Dec(1, -1), Dec(5, -1), Dec(1, 0), Dec(126, -2), Dec(50, 0),
      Dec(501, -1) }

\* degas times: the ends of [5, 240], their neighbours, values further away
DegasTimeInputs == {-1, 0, 4, 5, 240, 241, 1000}

\* targets: 0, the ends of [1e-5, 1e-2] and of [5e-4, 1e-2], 0.03, values
\* around 1.2 * 1e-3, values outside every range, one of four digits
TargetInputs ==
    { Dec(0, 0), Dec(1, -6), Dec(1, -5), Dec(5, -4), Dec(1, -3), Dec(12, -4),
      Dec(14, -4), Dec(1234, -6), Dec(1, -2), Dec(3, -2), Dec(31, -3),
      Dec(5, -2), Dec(-1, -3) }

FilamentInputs == {-1, 0, 1, 2, 3}

Str100Em3 == FormatE2(Dec(1, -3))
Str250Em2 == FormatE2(Dec(25, -3))

\* what ReadUntil may return: to a query the set point 1.00E-03 or 2.50E-02
\* of the device, the status ON, the integer 2, text that is neither, the
\* answer of another device,
\* bytes that are no frame; to a set the echo of the parameter, another
\* payload, bytes that are no frame
ControlResponses(c) ==
    IF c.prim = "Query"
    THEN { Frame(Pad3(Address), ACK, Str100Em3),
           Frame(Pad3(Address), ACK, Str250Em2),
           Frame(Pad3(Address), ACK, StrON),
           Frame(Pad3(Address), ACK, <<"2">>),
           Frame(Pad3(Address), ACK, StrXyz),
           Frame(Str099, ACK, Str100Em3),
           Garbage }
    ELSE { Frame(Pad3(Address), ACK, c.param),
           Frame(Pad3(Address), ACK, Str250),
           Garbage }

InitControl == Constructed({48})

NextControl ==
    \E p \in {SoleCaller} :
       \/ Connect(p)
       \/ Connect_Lock(p)
       \/ Connect_Call(p)
       \/ IsConnected_Lock(p)
       \/ IsConnected_Call(p)
       \/ \E channel \in ControlChannelInputs : GetTarget(p, channel)
       \/ GetTarget_Return(p)
       \/ \E channel \in ControlChannelInputs : \E target \in TargetInputs :
             SetProtectionTarget(p, channel, target)
       \/ \E channel \in ControlChannelInputs : \E target \in TargetInputs :
             SetTarget(p, channel, target)
       \/ \E channel \in ControlChannelInputs : \E target \in TargetInputs :
             SetHysterisesTarget(p, channel, target)
       \/ SetHysterisesTarget_Check(p)
       \/ \E channel \in ControlChannelInputs : \E filament \in FilamentInputs :
             SetActiveFilament(p, channel, filament)
       \/ \E channel \in ControlChannelInputs : GetProtectionTarget(p, channel)
       \/ GetProtectionTarget_Return(p)
       \/ \E channel \in ControlChannelInputs : GetUpperControlStatus(p, channel)
       \/ GetUpperControlStatus_Return(p)
       \/ \E channel \in ControlChannelInputs : GetHysterisesTarget(p, channel)
       \/ GetHysterisesTarget_Return(p)
       \/ \E channel \in ControlChannelInputs : GetControlChannelStatus(p, channel)
       \/ GetControlChannelStatus_Return(p)
       \/ \E channel \in ControlChannelInputs : GetControlMode(p, channel)
       \/ GetControlMode_Return(p)
       \/ \E channel \in ControlChannelInputs : GetActiveFilament(p, channel)
       \/ GetActiveFilament_Return(p)
       \/ \E channel \in ControlChannelInputs : GetEmissionCurrent(p, channel)
       \/ GetEmissionCurrent_Return(p)
       \/ \E channel \in ControlChannelInputs : GetGasCorrection(p, channel)
       \/ GetGasCorrection_Return(p)
       \/ \E channel \in ControlChannelInputs : GetPowerStatus(p, channel)
       \/ GetPowerStatus_Return(p)
       \/ \E channel \in ControlChannelInputs : GetGasSensitivy(p, channel)
       \/ GetGasSensitivy_Return(p)
       \/ \E channel \in ControlChannelInputs : GetDegasStatus(p, channel)
       \/ GetDegasStatus_Return(p)
       \/ \E channel \in ControlChannelInputs : GetDegasTime(p, channel)
       \/ GetDegasTime_Return(p)
       \/ \E channel \in ControlChannelInputs : \E status \in BOOLEAN :
             SetUpperControlStatus(p, channel, status)
       \/ \E channel \in ControlChannelInputs : \E status \in BOOLEAN :
             SetPowerStatus(p, channel, status)
       \/ \E channel \in ControlChannelInputs : \E status \in BOOLEAN :
             SetDegasStatus(p, channel, status)
       \/ \E channel \in ControlChannelInputs : \E target \in CSEInputs :
             SetControlChannelStatus(p, channel, target)
       \/ \E channel \in ControlChannelInputs : \E mode \in ModeInputs :
             SetControlMode(p, channel, mode)
       \/ \E channel \in ControlChannelInputs : \E current \in CurrentInputs :
             SetEmissionCurrent(p, channel, current)
       \/ \E channel \in ControlChannelInputs : \E factor \in GasInputs :
             SetGasCorrection(p, channel, factor)
       \/ \E channel \in ControlChannelInputs : \E sensitivity \in GasInputs :
             SetGasSentivity(p, channel, sensitivity)
       \/ \E channel \in ControlChannelInputs : \E time \in DegasTimeInputs :
             SetDegasTime(p, channel, time)
       \/ Query_NotConnected(p)
       \/ Query_Lock(p)
       \/ Query_Write(p)
       \/ Query_ReadUntil(p, ControlResponses(call[p]))
       \/ Set_NotConnected(p)
       \/ Set_Lock(p)
       \/ Set_Write(p)
       \/ Set_ReadUntil(p, ControlResponses(call[p]))
       \/ Set_Return(p)

SpecControl == InitControl /\ [][NextControl]_vars

\* a <= b of two decimal numbers
AtMost(a, b) ==
    /\ ~IsSpecial(a)
    /\ ~IsSpecial(b)
    /\ LET lo == IF a.e < b.e THEN a.e ELSE b.e
       IN  a.m * Pow10(a.e - lo) <= b.m * Pow10(b.e - lo)

\* p calls api with a valid channel
ControlCall(p, api) ==
    /\ call[p].api = api
    /\ call[p].arg[1] \in {1, 3, 5}

\* the set frame  @AAA<mnemonic><channel>!<parameter>;FF  of p's call
ControlFrame(p, mnemonic, parameter) ==
    SetMessage(Address, mnemonic \o SprintInt(call[p].arg[1]), parameter)

\* the CSP query of p's SetHysterisesTarget succeeded and gave a number
SetPointRead(p) ==
    /\ call[p].got # <<>>
    /\ ParseFloat(call[p].got[1]).err = Nil

\* 1.2 * CSP <= t <= 0.03 for the set point read and the target of p's call
InHysteresisRange(p) ==
    /\ SetPointRead(p)
    /\ AtMost(FloatTimes(Dec(12, -1), ParseFloat(call[p].got[1]).val),
              call[p].arg[2])
    /\ AtMost(call[p].arg[2], Dec(3, -2))

C18_ProtectionTargetRange ==
    \A p \in Procs :
       ControlCall(p, "SetProtectionTarget") =>
          LET t == call[p].arg[2]
              ok == t = Dec(0, 0) \/ (AtMost(Dec(1, -5), t) /\ AtMost(t, Dec(1, -2)))
          IN  /\ call[p].sent # <<>> => ok
              /\ ~ok => /\ pc[p] = "done"
                        /\ call[p].err = NewErrInvalidPRO(t)
                        /\ call[p].trace = <<>>

\* C19: SetTarget(channel, t) with a valid channel sends the CSP set frame
\* only when 5e-4 <= t <= 1e-2; for every other t it fails with
\* ErrInvalidRangeExp(5e-4, 1e-2, t) and writes no frame.
C19_TargetRange ==
    \A p \in Procs :
       ControlCall(p, "SetTarget") =>
          LET t == call[p].arg[2]
              ok == AtMost(Dec(5, -4), t) /\ AtMost(t, Dec(1, -2))
          IN  /\ call[p].sent # <<>> => ok
              /\ ~ok => /\ pc[p] = "done"
                        /\ call[p].err = NewErrInvalidRangeExp(Dec(5, -4), Dec(1, -2), t)
                        /\ call[p].trace = <<>>

\* C20: SetActiveFilament(channel, f) with a valid channel sends the AF set
\* frame only when f is 1 or 2; for every other f it fails with
\* ErrInvalidFilament and writes no frame.
C20_FilamentOneOrTwo ==
    \A p \in Procs :
       ControlCall(p, "SetActiveFilament") =>
          LET f == call[p].arg[2]
          IN  /\ call[p].sent # <<>> => f \in {1, 2}
              /\ f \notin {1, 2} => /\ pc[p] = "done"
                                    /\ call[p].err = NewErrInvalidFilament(f)
                                    /\ call[p].trace = <<>>

\* C21: SetDegasTime(channel, s) with a valid channel sends the DGT set
\* frame only when 5 <= s <= 240; for every other s it fails with
\* ErrInvalidRangeExp and writes no frame.
C21_DegasTimeRange ==
    \A p \in Procs :
       ControlCall(p, "SetDegasTime") =>
          LET time == call[p].arg[2]
          IN  /\ call[p].sent # <<>> => time \in 5..240
              /\ time \notin 5..240 =>
                    /\ pc[p] = "done"
                    /\ call[p].err.kind = "ErrInvalidRangeExp"
                    /\ call[p].trace = <<>>

\* C22: SetEmissionCurrent(channel, c) with a valid channel and c not among
\* 20UA, 100UA, AUTO20, AUTO100 fails with ErrInvalidEmissionCurrent, not
\* with the error of another command, and writes no frame.
C22_EmissionCurrentError ==
    \A p \in Procs :
       (ControlCall(p, "SetEmissionCurrent")
          /\ call[p].arg[2] \notin
                { <<"2", "0", "U", "A">>, <<"1", "0", "0", "U", "A">>,
                  <<"A", "U", "T", "O", "2", "0">>,
                  <<"A", "U", "T", "O", "1", "0", "0">> }) =>
             /\ pc[p] = "done"
             /\ call[p].err = NewErrInvalidEmissionCurrent(call[p].arg[2])
             /\ call[p].trace = <<>>
             /\ call[p].sent = <<>>

\* the getters and setters of control.go
ControlOperations ==
    { "GetProtectionTarget", "SetProtectionTarget", "GetTarget", "SetTarget",
      "GetUpperControlStatus", "SetUpperControlStatus", "GetHysterisesTarget",
      "SetHysterisesTarget", "GetControlChannelStatus", "SetControlChannelStatus",
      "GetControlMode", "SetControlMode", "GetActiveFilament", "SetActiveFilament",
      "GetEmissionCurrent", "SetEmissionCurrent", "GetGasCorrection",
      "SetGasCorrection", "GetPowerStatus", "SetPowerStatus", "GetGasSensitivy",
      "SetGasSentivity", "GetDegasStatus", "SetDegasStatus", "GetDegasTime",
      "SetDegasTime" }

\* C23: every getter and setter of control.go called with a channel other
\* than 1, 3, 5 fails with ErrInvalidChannelControl and makes no transport
\* call; the channel check comes before any parameter check (an invalid
\* parameter does not change the error) and before any query.
C23_ChannelCheckedFirst ==
    \A p \in Procs :
       (call[p].api \in ControlOperations /\ call[p].arg[1] \notin {1, 3, 5}) =>
          /\ pc[p] = "done"
          /\ call[p].err = NewErrInvalidChannelControl(call[p].arg[1])
          /\ call[p].trace = <<>>
          /\ call[p].sent = <<>>

\* on a connected gateway SetControlMode(2, MAN), wrong in channel and in
\* mode, was refused for its channel
C23_Witness ==
    \E p \in Procs :
       /\ connected
       /\ call[p].api = "SetControlMode"
       /\ call[p].arg = <<2, <<"M", "A", "N">> >>
       /\ call[p].err.kind = "ErrInvalidChannelControl"
       /\ call[p].trace = <<>>

(***************************************************************************)
(* SpecHysteresis: concurrent callers of SetHysterisesTarget and SetTarget *)
(* on one channel of one gateway.                                          *)
(***************************************************************************)
Str500Em3 == FormatE2(Dec(5, -3))

\* the device answers a query with its set point, 1.00E-03 at first and
\* 5.00E-03 once it was set, and a set with the echo of the parameter
HysteresisResponses(c) ==
    IF c.prim = "Query"
    THEN {Frame(Pad3(Address), ACK, Str100Em3), Frame(Pad3(Address), ACK, Str500Em3)}
    ELSE {Frame(Pad3(Address), ACK, c.param)}

InitHysteresis == Constructed({48})

NextHysteresis ==
    \E p \in Procs :
       \/ Connect(p)
       \/ Connect_Lock(p)
       \/ Connect_Call(p)
       \/ IsConnected_Lock(p)
       \/ IsConnected_Call(p)
       \/ SetHysterisesTarget(p, 1, Dec(14, -4))
       \/ SetHysterisesTarget_Check(p)
       \/ SetTarget(p, 1, Dec(5, -3))
       \/ Query_NotConnected(p)
       \/ Query_Lock(p)
       \/ Query_Write(p)
       \/ Query_ReadUntil(p, HysteresisResponses(call[p]))
       \/ Set_NotConnected(p)
       \/ Set_Lock(p)
       \/ Set_Write(p)
       \/ Set_ReadUntil(p, HysteresisResponses(call[p]))
       \/ Set_Return(p)

SpecHysteresis == InitHysteresis /\ [][NextHysteresis]_vars

\* p's SetHysterisesTarget has read the set point and is between the return
\* of its CSP query and the Lock of its CHP set
BetweenReadAndWrite(p) ==
    /\ call[p].api = "SetHysterisesTarget"
    /\ call[p].got # <<>>
    /\ \/ call[p].prim = "Query" /\ pc[p] = "ret"
       \/ call[p].prim = "Set" /\ pc[p] \in {"isconn_lock", "checked"}

\* C14: SetHysterisesTarget is not atomic: the mutex is taken and released
\* for its CSP read and taken again for its CHP write, so that between the
\* two the caller does not hold it and another caller's request (SetTarget
\* on the same channel) can be serviced, leaving the device with another set
\* point than the one the hysteresis was validated against.
C14_LockReleasedBetweenReadAndWrite ==
    \A p \in Procs :
       /\ BetweenReadAndWrite(p) => mutex # p
       /\ (call[p].api = "SetHysterisesTarget" /\ Len(call[p].sent) = 2) =>
             /\ SubSeq(call[p].trace, 1, Len(RoundTrip)) = RoundTrip
             /\ SubSeq(call[p].trace, Len(RoundTrip) + 1, Len(RoundTrip) + 5)
                   = SubSeq(RoundTrip, 1, 5)

\* after p validated its hysteresis against the set point 1.00E-03 and before
\* it locks for the CHP write, q's SetTarget of 5.00E-03 on the same channel
\* is in flight
C14_Witness ==
    \E p, q \in Procs :
       /\ p # q
       /\ BetweenReadAndWrite(p)
       /\ pc[p] = "checked"
       /\ call[p].got = <<Str100Em3>>
       /\ call[q].api = "SetTarget"
       /\ call[q].arg[1] = call[p].arg[1]
       /\ pc[q] = "read"
       /\ call[q].sent = <<SetMessage(Address, <<"C", "S", "P", "1">>, Str500Em3)>>
       /\ call[q].param # call[p].got[1]

(***************************************************************************)
(* SpecEcho: one caller of Query and Set against a transport that echoes   *)
(* faithfully: a set is answered with @AAAACK<parameter>;FF and a query    *)
(* with @AAAACK<value>;FF, for any of the values a parameter can be.       *)
(***************************************************************************)
\* parameter strings: those the setters format (an integer, a %.2E number,
\* a word), the empty one, one with a ';' and an 'F' that are no terminator,
\* one that holds the terminator ";FF", and one that holds a newline
EchoParameters ==
    { Str9600, FormatE2(Dec(14, -4)), StrON, <<>>, <<"1", ";", "F">>,
      <<"A", ";", "F", "F", "B">>, <<"A", "\n", "B">> }

EchoResponses(c) ==
    IF c.prim = "Query"
    THEN {Frame(Pad3(Address), ACK, v) : v \in EchoParameters}
    ELSE {Frame(Pad3(Address), ACK, c.param)}

InitEcho == Constructed({1, 48, 254})

NextEcho ==
    \E p \in {SoleCaller} :
       \/ Connect(p)
       \/ Connect_Lock(p)
       \/ Connect_Call(p)
       \/ IsConnected_Lock(p)
       \/ IsConnected_Call(p)
       \/ \E command \in {CmdAD, CmdBR} : Query(p, command)
       \/ Query_NotConnected(p)
       \/ Query_Lock(p)
       \/ Query_Write(p)
       \/ Query_ReadUntil(p, EchoResponses(call[p]))
       \/ Query_Return(p)
       \/ \E command \in {CmdAD, CmdBR} : \E parameter \in EchoParameters :
             Set(p, command, parameter)
       \/ Set_NotConnected(p)
       \/ Set_Lock(p)
       \/ Set_Write(p)
       \/ Set_ReadUntil(p, EchoResponses(call[p]))
       \/ Set_Return(p)

SpecEcho == InitEcho /\ [][NextEcho]_vars

\* the text holds neither the terminator ";FF" nor a newline
PlainText(v) ==
    /\ ~Contains(v, Terminator)
    /\ \A i \in 1..Len(v) : v[i] # "\n"

\* p's Set of a parameter among vs was answered with the echo
\* @AAAACK<parameter>;FF of the frame @AAA<mnemonic>!<parameter>;FF it wrote
SetEchoed(p, vs) ==
    /\ Answered(p, "Set")
    /\ call[p].param \in vs
    /\ call[p].sent = <<SetMessage(Address, call[p].cmd, call[p].param)>>
    /\ call[p].resp = Frame(Pad3(Address), ACK, call[p].param)

\* p's Query was answered with @AAAACK<v>;FF
QueryEchoed(p, v) ==
    /\ QueryAnswered(p)
    /\ call[p].resp = Frame(Pad3(Address), ACK, v)

DeviceValue(frame) ==
    IF Contains(frame, CmdAD) THEN Pad3(Address) ELSE Str9600

\* the device's reply to a query frame
DeviceReply(frame) == Frame(Pad3(Address), ACK, DeviceValue(frame))

\* the frame q's Query wrote reached the device and q's call has returned
\* without reading the reply to it: its ReadUntil timed out, or returned the
\* reply to an earlier frame
Unread(q) ==
    /\ pc[q] \in {"ret", "done"}
    /\ call[q].prim = "Query"
    /\ call[q].sent # <<>>
    /\ ~call[q].werr
    /\ call[q].rerr \/ call[q].resp # DeviceReply(call[q].sent[1])

\* r's ReadUntil returned the reply to q's frame
ReadReplyOf(r, q) ==
    /\ call[r].prim = "Query"
    /\ call[r].sent # <<>>
    /\ call[r].resp = DeviceReply(call[q].sent[1])
    /\ call[r].resp # DeviceReply(call[r].sent[1])

\* the replies to earlier frames that nobody has read: they arrive late and
\* are the first bytes p's ReadUntil finds on the line
LateReplies(p) ==
    { DeviceReply(call[q].sent[1]) :
        q \in { q \in Procs \ {p} :
                  /\ Unread(q)
                  /\ \A r \in Procs \ {p, q} : ~ReadReplyOf(r, q) } }

\* what p's ReadUntil may return: a late reply, or the reply to the frame p
\* wrote if the write did not fail
LineResponses(p) ==
    LateReplies(p) \cup
       (IF call[p].werr \/ call[p].sent = <<>>
        THEN {}
        ELSE {DeviceReply(call[p].sent[Len(call[p].sent)])})

\* p has made no call yet, or only Connect
FirstQuery(p) == pc[p] = "idle" \/ (pc[p] = "done" /\ call[p].api = "Connect")

InitLine == Constructed({48})

NextLine ==
    \E p \in Procs :
       \/ (pc[p] = "idle" /\ Connect(p))
       \/ Connect_Lock(p)
       \/ Connect_Call(p)
       \/ IsConnected_Lock(p)
       \/ IsConnected_Call(p)
       \/ \E command \in {CmdAD, CmdBR} : FirstQuery(p) /\ Query(p, command)
       \/ Query_NotConnected(p)
       \/ Query_Lock(p)
       \/ Query_Write(p)
       \/ Query_ReadUntil(p, LineResponses(p))
       \/ Query_Return(p)

SpecLine == InitLine /\ [][NextLine]_vars

\* C27: the value a successful Query returns is the device's reply to the
\* frame that same call wrote, for every sequence of calls on one gateway,
\* also when an earlier call ended with a read timeout and its reply arrives
\* late on the line.
C27_ReplyToOwnFrame ==
    \A p \in Procs :
       (QueryAnswered(p) /\ call[p].err = Nil) =>
          /\ call[p].resp = DeviceReply(call[p].sent[1])
          /\ call[p].val = DeviceValue(call[p].sent[1])

(***************************************************************************)
(* SpecLive: concurrent callers of the connection operations, Query, Set   *)
(* and SetHysterisesTarget, with the scheduling the program runs under:    *)
(* a call that can take its next step takes it (each transport call        *)
(* returns), and a goroutine waiting in m.mutex.Lock() gets the mutex      *)
(* if it is released again and again (sync.Mutex hands a starving waiter   *)
(* the mutex).  Callers need not call again.  IsConnected runs as Query   *)
(* and Set call it.                                                        *)
(***************************************************************************)
\* what ReadUntil may return: success and each of the decoding errors; a
\* query is answered with 0, a set point under which the hysteresis 3.00E-02
\* is accepted, or with 1, under which it is refused
LiveResponses(c) ==
    IF c.prim = "Query"
    THEN { Frame(Pad3(Address), ACK, SprintInt(0)),
           Frame(Pad3(Address), ACK, SprintInt(1)),
           Frame(Str099, ACK, Str250),
           Garbage }
    ELSE { Frame(Pad3(Address), ACK, c.param),
           Frame(Pad3(Address), ACK, Str19200),
           Frame(Str099, ACK, Str250),
           Garbage }

InitLive == Constructed({48})

\* p's m.mutex.Lock() returns
Locks(p) ==
    \/ Connect_Lock(p)
    \/ Disconnect_Lock(p)
    \/ IsConnected_Lock(p)
    \/ Query_Lock(p)
    \/ Set_Lock(p)

\* p's call takes a step that waits for no other caller
Proceeds(p) ==
    \/ Connect_Call(p)
    \/ Disconnect_Call(p)
    \/ IsConnected_Call(p)
    \/ Query_NotConnected(p)
    \/ Query_Write(p)
    \/ Query_ReadUntil(p, LiveResponses(call[p]))
    \/ Query_Return(p)
    \/ Set_NotConnected(p)
    \/ Set_Write(p)
    \/ Set_ReadUntil(p, LiveResponses(call[p]))
    \/ Set_Return(p)
    \/ SetHysterisesTarget_Check(p)

\* p calls an operation of the gateway
Calls(p) ==
    \/ Connect(p)
    \/ Disconnect(p)
    \/ Query(p, CmdAD)
    \/ Set(p, CmdBR, Str9600)
    \/ SetHysterisesTarget(p, 1, Dec(3, -2))

NextLive == \E p \in Procs : Calls(p) \/ Locks(p) \/ Proceeds(p)

FairLive == \A p \in Procs : WF_vars(Proceeds(p)) /\ SF_vars(Locks(p))

SpecLive == InitLive /\ [][NextLive]_vars /\ FairLive

\* p is at a m.mutex.Lock()
AtLock(p) ==
    \/ pc[p] \in {"conn_lock", "disc_lock", "isconn_lock"}
    \/ pc[p] = "checked" /\ call[p].prim \in {"Query", "Set"} /\ call[p].chk

\* p is between a m.mutex.Lock() and the Unlock deferred after it
InLocked(p) == pc[p] \in {"conn_call", "disc_call", "isconn_call", "write", "read"}

\* C28: every operation releases the lock on every exit path (success, read
\* error, UnexpectedReply, UnexpectedAddress, UnexpectedParameter) and never
\* tries to take it while holding it (Query and Set calling IsConnected,
\* SetHysterisesTarget calling GetTarget and then Set); so, every transport
\* call returning, every caller waiting for the lock eventually gets it and
\* every call terminates.
C28_LockReleasedAndCallsTerminate ==
    /\ [](\A p \in Procs : (mutex = p) <=> InLocked(p))
    /\ \A p \in Procs : (AtLock(p) /\ mutex # 0) ~> (mutex = p)
    /\ \A p \in Procs : (~Idle(p)) ~> (pc[p] = "done")

\* p's SetHysterisesTarget has read the set point and waits for the lock of
\* its CHP set while q holds it for a round trip
C28_Witness ==
    \E p, q \in Procs :
       /\ p # q
       /\ call[p].api = "SetHysterisesTarget"
       /\ call[p].prim = "Set"
       /\ AtLock(p)
       /\ mutex = q
       /\ pc[q] = "read"

\* C29: GetPressures never fails fatally, whatever the PRZ response body: a
\* body of more than 6 space-separated fields gives a returned result or
\* error and never an access past the 6-slot result.
C29_GetPressuresNeverPanics ==
    \A p \in Procs : pc[p] # "panicked"

====
